---- MODULE Spec2Model ----
(***************************************************************************)
(* godb: table-level lock manager, transaction manager, pager, table heap, *)
(* B-Tree index manager and the statement executor, as state machines.     *)
(*                                                                         *)
(*   SpecLock  the lock manager's API called freely by any transaction id, *)
(*             with the polling loop and its timeout (time in seconds).    *)
(*   Spec      two executor sessions issuing statements against one shared *)
(*             transaction manager, pager and catalog.                     *)
(*   SpecIndex one session, with CREATE INDEX, DROP INDEX and SELECT with  *)
(*             a WHERE clause.                                             *)
(***************************************************************************)
EXTENDS Integers, Sequences, FiniteSets, TLC

VARIABLES
    tableLocks,  \* LockManager.tableLocks: table -> [readers, writer]
    wait,        \* per transaction id: the Acquire*Lock call it is inside
    nextTxID,    \* TransactionManager.nextTxID
    activeTxs,   \* keys of TransactionManager.activeTxs
    txs,         \* the Transaction object of every id: [Status, Operations]
    currentTx,   \* Executor.currentTx of each session (NilTx: auto-commit)
    pc,          \* each session's position inside its statement
    stmt,        \* the statement a session is executing
    numPages,    \* Pager.numPages
    pageCache,   \* Pager.pageCache: page id -> Page
    file,        \* the database file as written (WriteAt)
    unsynced,    \* ids of the pages written to the file since its last Sync
    tables,      \* Catalog.tables: name -> FirstPageID
    catIndexes,  \* Catalog.indexes: name -> table name
    indexes,     \* IndexManager.indexes: name -> [TableName, tree]
    snap,        \* history: live values of each table when the session's BEGIN ran
    ret,         \* result of the last call that returned
    thePage,     \* a storage.Page on its own: [RowCount, Data], Data in bytes
    value,       \* a types.Value on its own: [Type, Data]
    undo,        \* the Rollback call whose loop is running: [txID, operations, i, done]
    insert,      \* the InsertRow call whose loop is running
    meta         \* the catalog file as last written: [tables, indexes]

lockVars == <<tableLocks, wait>>
tmVars == <<nextTxID, activeTxs, txs>>
execVars == <<currentTx, pc, stmt>>
pagerVars == <<numPages, pageCache, file, unsynced>>
catVars == <<tables, catIndexes, meta>>
unitVars == <<thePage, value, undo, insert>>
vars == <<tableLocks, wait, nextTxID, activeTxs, txs, currentTx, pc, stmt,
          numPages, pageCache, file, unsynced, tables, catIndexes, indexes,
          snap, ret, thePage, value, undo, insert, meta>>

(***************************************************************************)
(* Bounds of the exploration.                                              *)
(***************************************************************************)
MaxTx == 2         \* Begin is explored until nextTxID exceeds this
MaxRows == 2       \* records written to the heap, over all tables
PageCap == 2       \* rows a page takes before it is full
MaxPages == 2      \* pages the pager allocates
TickSeconds == 30  \* seconds by which one Tick advances the clock
BodySize == 12     \* bytes of Page.Data (PageSize - HeaderSize)
MaxLen == 3        \* longest row payload handed to a Page, in bytes
HeapMaxPages == 4  \* pages allocated when the heap is called directly
HeapMaxRows == 4   \* records written when the heap is called directly
MaxOps == 2        \* operations appended to one transaction's log directly

Sessions == {"s1", "s2"}
\* table names the lock manager is called with
TableNames == {"t1", "t2"}
\* tables the sessions create and use
Tables == {"t1"}
Vals == {1, 2}
IndexNames == {"ix"}
TxIds == 0 .. MaxTx

\* lm.timeout, in seconds
LockTimeout == 30

\* Executor.currentTx == nil
NilTx == -1

(***************************************************************************)
(* Lock manager (transaction/lock.go).                                     *)
(***************************************************************************)
NewTableLock == [readers |-> {}, writer |-> 0]

\* lm.tableLocks[table], created on first use
EnsureLock(locks, t) ==
    IF t \in DOMAIN locks THEN locks ELSE locks @@ (t :> NewTableLock)

CanReadMutA(lock, txID) == TRUE

\* the grant condition of AcquireReadLock
CanRead(lock, txID) == lock.writer = 0 \/ lock.writer = txID

CanWriteMutA(lock, txID) == lock.writer = 0 \/ lock.writer = txID

\* the grant condition of AcquireWriteLock
CanWrite(lock, txID) ==
    /\ lock.writer = 0 \/ lock.writer = txID
    /\ \A readerID \in lock.readers : readerID = txID

GrantRead(lock, txID) == [lock EXCEPT !.readers = @ \cup {txID}]

GrantWrite(lock, txID) ==
    [readers |-> lock.readers \cup {txID}, writer |-> txID]

CanGrant(lock, mode, txID) ==
    IF mode = "read" THEN CanRead(lock, txID) ELSE CanWrite(lock, txID)

Grant(lock, mode, txID) ==
    IF mode = "read" THEN GrantRead(lock, txID) ELSE GrantWrite(lock, txID)

ReleaseOneMutA(lock, txID) == NewTableLock

\* what ReleaseLocks and ReleaseTableLock do to one table lock
ReleaseOne(lock, txID) ==
    [readers |-> lock.readers \ {txID},
     writer |-> IF lock.writer = txID THEN 0 ELSE lock.writer]

ReleaseLocks(locks, txID) ==
    [t \in DOMAIN locks |-> ReleaseOne(locks[t], txID)]

ReleaseTableLock(locks, t, txID) ==
    IF t \in DOMAIN locks
    THEN [locks EXCEPT ![t] = ReleaseOne(@, txID)]
    ELSE locks

TimedOutMutA(elapsed) == elapsed >= LockTimeout

\* time.Since(startTime) > lm.timeout
TimedOut(elapsed) == elapsed > LockTimeout

NoWait == [st |-> "idle", table |-> "", mode |-> "", elapsed |-> 0]

EmptyFn == [x \in {} |-> 0]

NoStmt == [kind |-> "none", table |-> ""]

NoView == [valid |-> FALSE, vals |-> {}]

NoSnap == [deleted |-> FALSE, tabs |-> [t \in Tables |-> NoView]]

NoRet == [op |-> "none"]

\* NewPage: no record, Data all zero
NewPageData == [RowCount |-> 0, Data |-> [i \in 1 .. BodySize |-> 0]]

\* NewIntValue(0)
ZeroValue == [Type |-> "TypeInt", Data |-> 0]

\* no Rollback is inside its loop
NoUndo == [txID |-> NilTx, operations |-> <<>>, i |-> 0, done |-> <<>>]

\* no InsertRow is inside its loop
NoInsert == [running |-> FALSE, rowData |-> <<>>, currentPageID |-> 0,
             visited |-> <<>>, allocated |-> 0]

\* no catalog file: Load leaves the catalog empty
NoMeta == [tables |-> EmptyFn, indexes |-> EmptyFn]

\* The state after construction: NewPager on a new file, NewCatalog,
\* NewIndexManager, NewTransactionManager (with NewLockManager), NewExecutor.
Init ==
    /\ tableLocks = EmptyFn
    /\ wait = [tx \in TxIds |-> NoWait]
    /\ nextTxID = 1
    /\ activeTxs = {}
    /\ txs = EmptyFn
    /\ currentTx = [s \in Sessions |-> NilTx]
    /\ pc = [s \in Sessions |-> "idle"]
    /\ stmt = [s \in Sessions |-> NoStmt]
    /\ numPages = 0
    /\ pageCache = EmptyFn
    /\ file = EmptyFn
    /\ unsynced = {}
    /\ tables = EmptyFn
    /\ catIndexes = EmptyFn
    /\ indexes = EmptyFn
    /\ snap = [s \in Sessions |-> NoSnap]
    /\ ret = NoRet
    /\ thePage = NewPageData
    /\ value = ZeroValue
    /\ undo = NoUndo
    /\ insert = NoInsert
    /\ meta = NoMeta

(***************************************************************************)
(* SpecLock: AcquireReadLock, AcquireWriteLock, ReleaseLocks and           *)
(* ReleaseTableLock called by any transaction id.  A call that is not      *)
(* granted at once stays in its polling loop: Poll is one iteration that   *)
(* returns (granted, or timed out); an iteration that only sleeps changes  *)
(* nothing, and the time it sleeps is what Tick adds.                      *)
(***************************************************************************)
Waiting(txID) == wait[txID].st = "waiting"

\* A call that returned: how it ended and after how long
Returned(how, w) ==
    [st |-> how, table |-> w.table, mode |-> "", elapsed |-> w.elapsed]

\* a request that has to wait is entered in the readers set
LockCallMutA(mode, t, txID) ==
    LET locks == EnsureLock(tableLocks, t) IN
    /\ ~Waiting(txID)
    /\ IF CanGrant(locks[t], mode, txID)
       THEN /\ tableLocks' = [locks EXCEPT ![t] = Grant(@, mode, txID)]
            /\ wait' = [wait EXCEPT ![txID] = NoWait]
       ELSE /\ tableLocks' = [locks EXCEPT ![t] = GrantRead(@, txID)]
            /\ wait' = [wait EXCEPT ![txID] =
                   [st |-> "waiting", table |-> t, mode |-> mode, elapsed |-> 0]]

\* The first iteration of the loop of AcquireReadLock / AcquireWriteLock.
LockCall(mode, t, txID) ==
    LET locks == EnsureLock(tableLocks, t) IN
    /\ ~Waiting(txID)
    /\ IF CanGrant(locks[t], mode, txID)
       THEN /\ tableLocks' = [locks EXCEPT ![t] = Grant(@, mode, txID)]
            /\ wait' = [wait EXCEPT ![txID] = NoWait]
       ELSE /\ tableLocks' = locks
            /\ wait' = [wait EXCEPT ![txID] =
                   [st |-> "waiting", table |-> t, mode |-> mode, elapsed |-> 0]]

AcquireReadLock(t, txID) ==
    /\ LockCall("read", t, txID)
    /\ UNCHANGED <<unitVars, tmVars, execVars, pagerVars, catVars, indexes, snap, ret>>

AcquireWriteLock(t, txID) ==
    /\ LockCall("write", t, txID)
    /\ UNCHANGED <<unitVars, tmVars, execVars, pagerVars, catVars, indexes, snap, ret>>

\* the loop without its timeout check
PollMutA(txID) ==
    LET w == wait[txID] IN
    /\ Waiting(txID)
    /\ CanGrant(tableLocks[w.table], w.mode, txID)
    /\ tableLocks' = [tableLocks EXCEPT ![w.table] = Grant(@, w.mode, txID)]
    /\ wait' = [wait EXCEPT ![txID] = Returned("granted", w)]
    /\ UNCHANGED <<unitVars, tmVars, execVars, pagerVars, catVars, indexes, snap, ret>>

\* A later iteration: the grant is tried first, the timeout is looked at
\* only after the try failed.
Poll(txID) ==
    LET w == wait[txID] IN
    /\ Waiting(txID)
    /\ IF CanGrant(tableLocks[w.table], w.mode, txID)
       THEN /\ tableLocks' = [tableLocks EXCEPT ![w.table] = Grant(@, w.mode, txID)]
            /\ wait' = [wait EXCEPT ![txID] = Returned("granted", w)]
       ELSE /\ TimedOut(w.elapsed)
            /\ tableLocks' = tableLocks
            /\ wait' = [wait EXCEPT ![txID] = Returned("timeout", w)]
    /\ UNCHANGED <<unitVars, tmVars, execVars, pagerVars, catVars, indexes, snap, ret>>

\* Time passes for every call that is in its loop.  Past the timeout the
\* exact time no longer matters and is not counted further.
Tick ==
    /\ \E txID \in TxIds : Waiting(txID) /\ ~TimedOut(wait[txID].elapsed)
    /\ wait' = [txID \in TxIds |->
                  IF Waiting(txID) /\ ~TimedOut(wait[txID].elapsed)
                  THEN [wait[txID] EXCEPT !.elapsed = @ + TickSeconds]
                  ELSE wait[txID]]
    /\ UNCHANGED <<unitVars, tableLocks, tmVars, execVars, pagerVars, catVars, indexes,
                   snap, ret>>

LMReleaseLocks(txID) ==
    /\ ~Waiting(txID)
    /\ tableLocks' = ReleaseLocks(tableLocks, txID)
    /\ wait' = [wait EXCEPT ![txID] = NoWait]
    /\ UNCHANGED <<unitVars, tmVars, execVars, pagerVars, catVars, indexes, snap, ret>>

LMReleaseTableLock(t, txID) ==
    /\ ~Waiting(txID)
    /\ tableLocks' = ReleaseTableLock(tableLocks, t, txID)
    /\ wait' = [wait EXCEPT ![txID] = NoWait]
    /\ UNCHANGED <<unitVars, tmVars, execVars, pagerVars, catVars, indexes, snap, ret>>

NextLock ==
    \/ \E t \in TableNames, txID \in TxIds : AcquireReadLock(t, txID)
    \/ \E t \in TableNames, txID \in TxIds : AcquireWriteLock(t, txID)
    \/ \E txID \in TxIds : Poll(txID)
    \/ Tick
    \/ \E txID \in TxIds : LMReleaseLocks(txID)
    \/ \E t \in TableNames, txID \in TxIds : LMReleaseTableLock(t, txID)

SpecLock == Init /\ [][NextLock]_vars

(***************************************************************************)
(* Claims on the lock manager.                                             *)
(***************************************************************************)

\* C1: for every table, a non-zero writer is the only transaction that may
\* be in the readers set: writer # 0 => readers \subseteq {writer}.
C1_WriterExcludesOtherReaders ==
    \A t \in DOMAIN tableLocks :
        tableLocks[t].writer # 0 =>
            tableLocks[t].readers \subseteq {tableLocks[t].writer}

\* C1 witness: a table is write-locked while another transaction's request
\* for it is in its polling loop, and some table has two readers.
C1_Witness ==
    /\ \E t \in DOMAIN tableLocks, txID \in TxIds :
          /\ tableLocks[t].writer # 0
          /\ tableLocks[t].writer # txID
          /\ Waiting(txID) /\ wait[txID].table = t
    /\ \E t \in DOMAIN tableLocks : Cardinality(tableLocks[t].readers) >= 2

\* txID holds a lock on t: GrantRead and GrantWrite both put it in readers
Holds(locks, t, txID) == t \in DOMAIN locks /\ txID \in locks[t].readers

\* C7: (a) while a transaction T1 # 0 is the writer of t, no step makes a
\* different id a holder of t; (b) an iteration that finds the grant
\* condition true returns with the lock, never with the timeout; (c) a call
\* returns the timeout error only when more than LockTimeout seconds have
\* passed since it started.
C7_LockWaitAndTimeout ==
    /\ [][\A t \in DOMAIN tableLocks, txID \in TxIds :
             (tableLocks[t].writer # 0 /\ tableLocks[t].writer # txID)
                 => ~Holds(tableLocks', t, txID)]_vars
    /\ [][\A txID \in TxIds :
             (/\ Waiting(txID)
              /\ CanGrant(tableLocks[wait[txID].table], wait[txID].mode, txID)
              /\ wait'[txID].st # "waiting")
                 => (wait'[txID].st = "granted"
                     /\ Holds(tableLocks', wait[txID].table, txID))]_vars
    /\ [](\A txID \in TxIds :
             wait[txID].st = "timeout" => wait[txID].elapsed > LockTimeout)

\* C7 witness: a request waited, was granted after the writer released, and
\* another request on a still write-locked table has timed out.
C7_Witness ==
    /\ \E txID \in TxIds :
          /\ wait[txID].st = "granted" /\ wait[txID].elapsed > 0
          /\ Holds(tableLocks, wait[txID].table, txID)
    /\ \E txID \in TxIds :
          /\ wait[txID].st = "timeout"
          /\ tableLocks[wait[txID].table].writer \notin {0, txID}


(***************************************************************************)
(* Storage: pager and table heap.  A pager value P gathers the four        *)
(* variables numPages, pageCache, file (pages written with WriteAt) and    *)
(* unsynced (the pages written since the last Sync).  A row has one        *)
(* column; its place in a page is its RowIndex, counted from 0.            *)
(***************************************************************************)
Put(f, k, v) == [x \in DOMAIN f \cup {k} |-> IF x = k THEN v ELSE f[x]]

NewPage == [rows |-> <<>>, NextPage |-> 0]

Pager == [numPages |-> numPages, pageCache |-> pageCache, file |-> file,
          unsynced |-> unsynced]

\* Pager.GetPage succeeds for a cached page (every allocated page is cached)
HasPage(P, pageID) == pageID \in DOMAIN P.pageCache

writePageToDisk(P, pageID, page) ==
    [P EXCEPT !.file = Put(@, pageID, page), !.unsynced = @ \cup {pageID}]

\* the page count stays as it was
AllocatePageMutA(P) ==
    LET pageID == P.numPages
        P1 == writePageToDisk(P, pageID, NewPage)
    IN [P1 EXCEPT !.pageCache = Put(@, pageID, NewPage)]

AllocatePage(P) ==
    LET pageID == P.numPages
        P1 == writePageToDisk(P, pageID, NewPage)
    IN [P1 EXCEPT !.pageCache = Put(@, pageID, NewPage), !.numPages = @ + 1]

FlushPage(P, pageID) == writePageToDisk(P, pageID, P.pageCache[pageID])

\* every cached page is written, but the file is not synced
FlushAllMutA(P) ==
    [P EXCEPT !.file = [x \in DOMAIN P.file \cup DOMAIN P.pageCache |->
                          IF x \in DOMAIN P.pageCache THEN P.pageCache[x] ELSE P.file[x]],
              !.unsynced = @ \cup DOMAIN P.pageCache]

FlushAll(P) ==
    LET written == [x \in DOMAIN P.file \cup DOMAIN P.pageCache |->
                      IF x \in DOMAIN P.pageCache THEN P.pageCache[x] ELSE P.file[x]]
    IN [P EXCEPT !.file = written, !.unsynced = {}]

IsFull(page) == Len(page.rows) >= PageCap

RECURSIVE InsertRowFrom(_, _, _)
InsertRowFrom(P, currentPageID, row) ==
    LET page == P.pageCache[currentPageID] IN
    IF ~IsFull(page)
    THEN FlushPage([P EXCEPT !.pageCache[currentPageID].rows = Append(@, row)],
                   currentPageID)
    ELSE IF page.NextPage = 0
         THEN LET P1 == AllocatePage(P)
                  newID == P.numPages
                  P2 == [P1 EXCEPT !.pageCache[currentPageID].NextPage = newID]
              IN InsertRowFrom(FlushPage(P2, currentPageID), newID, row)
         ELSE InsertRowFrom(P, page.NextPage, row)

\* TableStorage.InsertRow: the place the row went to is not reported back
InsertRow(P, firstPageID, row) == InsertRowFrom(P, firstPageID, row)

RowID(pageID, rowIndex) == <<pageID, rowIndex>>
ZeroRowID == RowID(0, 0)

\* Page.ReadRow succeeds
HasRow(P, rowID) ==
    /\ HasPage(P, rowID[1])
    /\ rowID[2] < Len(P.pageCache[rowID[1]].rows)

SetDeleted(P, rowID, d) ==
    [P EXCEPT !.pageCache[rowID[1]].rows[rowID[2] + 1].Deleted = d]

\* TableStorage.MarkRowDeleted: [err, P]
MarkRowDeleted(P, rowID) ==
    IF HasRow(P, rowID)
    THEN [err |-> FALSE, P |-> FlushPage(SetDeleted(P, rowID, TRUE), rowID[1])]
    ELSE [err |-> TRUE, P |-> P]

\* TransactionManager.unmarkRowDeleted: the page is changed in the cache only
unmarkRowDeleted(P, rowID) ==
    IF HasRow(P, rowID)
    THEN [err |-> FALSE, P |-> SetDeleted(P, rowID, FALSE)]
    ELSE [err |-> TRUE, P |-> P]

\* only the first page is read
ScanFromMutA(P, currentPageID, includeDeleted) ==
    LET page == P.pageCache[currentPageID]
        all == [i \in 1 .. Len(page.rows) |->
                  [ID |-> <<currentPageID, i - 1>>,
                   Deleted |-> page.rows[i].Deleted, val |-> page.rows[i].val]]
    IN SelectSeq(all, LAMBDA r : ~r.Deleted \/ includeDeleted)

\* TableStorage.GetAllRowsWithDeleted: rows with their ids, in chain order
RECURSIVE ScanFrom(_, _, _)
ScanFrom(P, currentPageID, includeDeleted) ==
    LET page == P.pageCache[currentPageID]
        all == [i \in 1 .. Len(page.rows) |->
                  [ID |-> RowID(currentPageID, i - 1),
                   Deleted |-> page.rows[i].Deleted, val |-> page.rows[i].val]]
        here == SelectSeq(all, LAMBDA r : ~r.Deleted \/ includeDeleted)
    IN IF page.NextPage = 0
       THEN here
       ELSE here \o ScanFrom(P, page.NextPage, includeDeleted)

GetAllRowsWithDeleted(P, firstPageID, includeDeleted) ==
    ScanFrom(P, firstPageID, includeDeleted)

GetAllRows(P, firstPageID) == GetAllRowsWithDeleted(P, firstPageID, FALSE)

Range(seq) == {seq[i] : i \in 1 .. Len(seq)}

\* the live values of table t, as a full scan sees them
LiveVals(P, tabs, t) == {r.val : r \in Range(GetAllRows(P, tabs[t].FirstPageID))}

\* the old row is not tombstoned
UpdateRowMutA(P, firstPageID, rowID, newRow) ==
    [err |-> FALSE, P |-> InsertRow(P, firstPageID, newRow)]

\* TableStorage.UpdateRow: [err, P]
UpdateRow(P, firstPageID, rowID, newRow) ==
    LET m == MarkRowDeleted(P, rowID) IN
    IF m.err THEN m ELSE [err |-> FALSE, P |-> InsertRow(m.P, firstPageID, newRow)]


(***************************************************************************)
(* B-Tree index: the tree is the set of its entries, iterated in the       *)
(* order of IndexEntry.Less.                                               *)
(***************************************************************************)
IndexEntry(key, rowID) == [Key |-> key, RowID |-> rowID]

compareValues(v1, v2) == IF v1 < v2 THEN -1 ELSE IF v1 > v2 THEN 1 ELSE 0

valuesEqual(v1, v2) == compareValues(v1, v2) = 0

Less(e, other) ==
    IF e.Key # other.Key THEN e.Key < other.Key
    ELSE IF e.RowID[1] # other.RowID[1] THEN e.RowID[1] < other.RowID[1]
    ELSE e.RowID[2] < other.RowID[2]

\* btree.Ascend: every entry, smallest first
RECURSIVE Ascend(_)
Ascend(tree) ==
    IF tree = {} THEN <<>>
    ELSE LET first == CHOOSE e \in tree : \A o \in tree \ {e} : Less(e, o)
         IN <<first>> \o Ascend(tree \ {first})

AscendGreaterOrEqualMutA(tree, pivot) ==
    SelectSeq(Ascend(tree), LAMBDA e : Less(pivot, e))

\* btree.AscendGreaterOrEqual: the entries that are not Less than pivot
AscendGreaterOrEqual(tree, pivot) ==
    SelectSeq(Ascend(tree), LAMBDA e : ~Less(e, pivot))

\* the iteration stops at the first entry for which the callback says
\* false: stops holds the positions of such entries
StopAtFirst(seq, stops) ==
    LET n == IF stops = {} THEN Len(seq)
             ELSE (CHOOSE i \in stops : \A j \in stops : i <= j) - 1
    IN SubSeq(seq, 1, n)

RowIDs(entries) == [i \in 1 .. Len(entries) |-> entries[i].RowID]

Search(tree, key) ==
    LET items == AscendGreaterOrEqual(tree, IndexEntry(key, ZeroRowID)) IN
    RowIDs(StopAtFirst(items,
             {i \in 1 .. Len(items) : ~valuesEqual(items[i].Key, key)}))

RangeSearch(tree, operator, key) ==
    LET all == Ascend(tree)
        from == AscendGreaterOrEqual(tree, IndexEntry(key, ZeroRowID))
    IN CASE operator = "<" ->
              RowIDs(StopAtFirst(all,
                 {i \in 1 .. Len(all) : ~(compareValues(all[i].Key, key) < 0)}))
         [] operator = "<=" ->
              RowIDs(StopAtFirst(all,
                 {i \in 1 .. Len(all) : ~(compareValues(all[i].Key, key) <= 0)}))
         [] operator = ">" ->
              RowIDs(SelectSeq(from, LAMBDA e : compareValues(e.Key, key) > 0))
         [] operator = ">=" -> RowIDs(from)

NewIndex(tableName) == [TableName |-> tableName, tree |-> {}]

\* IndexManager.InsertEntry / DeleteEntry: every index of the table
InsertEntry(ixs, tableName, val, rowID) ==
    [n \in DOMAIN ixs |->
       IF ixs[n].TableName = tableName
       THEN [ixs[n] EXCEPT !.tree = @ \cup {IndexEntry(val, rowID)}]
       ELSE ixs[n]]

DeleteEntry(ixs, tableName, val, rowID) ==
    [n \in DOMAIN ixs |->
       IF ixs[n].TableName = tableName
       THEN [ixs[n] EXCEPT !.tree = @ \ {IndexEntry(val, rowID)}]
       ELSE ixs[n]]

\* IndexManager.GetIndexByColumn: the indexes the map iteration may return
IndexesByColumn(ixs, tableName) == {n \in DOMAIN ixs : ixs[n].TableName = tableName}


(***************************************************************************)
(* Transaction manager.  txs keeps the Transaction object of every id      *)
(* Begin has returned; activeTxs is the key set of the activeTxs map.      *)
(***************************************************************************)
NewTxIDMutA(next) == next - 1

\* atomic.AddUint64(&nextTxID, 1) - 1
NewTxID(next) == next

NewTransaction == [Status |-> "Active", Operations |-> <<>>]

\* a transaction taken out of activeTxs: nothing refers to its operation log
\* any more, its Status is kept as history
Finished(status) == [Status |-> status, Operations |-> <<>>]

ExistsMutA(active, txID) == TRUE

Exists(active, txID) == txID \in active

Operation(type, tableName, rowID, oldID, newID) ==
    [Type |-> type, TableName |-> tableName, RowID |-> rowID,
     OldID |-> oldID, NewID |-> newID]

\* TransactionManager.Commit: what it returns and what it leaves behind
TMCommit(txID) ==
    IF ~Exists(activeTxs, txID)
    THEN [err |-> "not found", activeTxs |-> activeTxs, txs |-> txs,
          locks |-> tableLocks, P |-> Pager]
    ELSE [err |-> "",
          activeTxs |-> activeTxs \ {txID},
          txs |-> [txs EXCEPT ![txID] = Finished("Committed")],
          locks |-> ReleaseLocks(tableLocks, txID),
          P |-> FlushAll(Pager)]

\* rollbackOperation: [err, P]
rollbackOperation(P, op) ==
    IF op.TableName \notin DOMAIN tables THEN [err |-> TRUE, P |-> P]
    ELSE CASE op.Type = "OpInsert" -> MarkRowDeleted(P, op.RowID)
           [] op.Type = "OpUpdate" ->
                LET m == MarkRowDeleted(P, op.NewID) IN
                IF m.err THEN m ELSE unmarkRowDeleted(m.P, op.OldID)
           [] op.Type = "OpDelete" -> unmarkRowDeleted(P, op.RowID)

\* the loop of Rollback: last operation first, an error is only reported
RECURSIVE rollbackAll(_, _, _)
rollbackAll(P, operations, i) ==
    IF i = 0 THEN P
    ELSE rollbackAll(rollbackOperation(P, operations[i]).P, operations, i - 1)

TMRollback(txID) ==
    IF ~Exists(activeTxs, txID)
    THEN [err |-> "not found", activeTxs |-> activeTxs, txs |-> txs,
          locks |-> tableLocks, P |-> Pager]
    ELSE LET operations == txs[txID].Operations IN
         [err |-> "",
          activeTxs |-> activeTxs \ {txID},
          txs |-> [txs EXCEPT ![txID] = Finished("Aborted")],
          locks |-> ReleaseLocks(tableLocks, txID),
          P |-> FlushAll(rollbackAll(Pager, operations, Len(operations)))]


(***************************************************************************)
(* Executor.  A session is one Executor (its own currentTx) over the       *)
(* shared catalog, pager, index manager and transaction manager.           *)
(***************************************************************************)
getCurrentTxID(s) == IF currentTx[s] = NilTx THEN 0 ELSE currentTx[s]

SetPager(P) ==
    /\ numPages' = P.numPages
    /\ pageCache' = P.pageCache
    /\ file' = P.file
    /\ unsynced' = P.unsynced

RECURSIVE RowsInPages(_, _)
RowsInPages(P, n) ==
    IF n = 0 THEN 0 ELSE Len(P.pageCache[n - 1].rows) + RowsInPages(P, n - 1)

\* the model stops growing the heap here
WithinBounds(P) == P.numPages <= MaxPages /\ RowsInPages(P, P.numPages) <= MaxRows

TableRows(P, t) == GetAllRowsWithDeleted(P, tables[t].FirstPageID, TRUE)

\* history: what a SELECT * of each table returns when BEGIN runs
Snapshot ==
    [deleted |-> FALSE,
     tabs |-> [t \in Tables |->
                 IF t \in DOMAIN tables
                 THEN [valid |-> TRUE, vals |-> LiveVals(Pager, tables, t)]
                 ELSE NoView]]

\* history: a session's view of a table is dropped once another session
\* has changed a row of that table
SnapAfter(s, P2, mine) ==
    [x \in Sessions |->
       IF x = s THEN mine
       ELSE [snap[x] EXCEPT !.tabs =
               [t \in Tables |->
                  IF snap[x].tabs[t].valid /\ TableRows(P2, t) = TableRows(Pager, t)
                  THEN snap[x].tabs[t] ELSE NoView]]]

\* what Execute returns when a statement fails
ExecError(msg) == [op |-> "exec", err |-> msg]

\* Catalog.save: the whole catalog is written to the file
save(tabs, ixs) == [tables |-> tabs, indexes |-> ixs]

\* NewTableStorage allocates the first page, then Catalog.CreateTable
\* looks for the name
executeCreateTable(t) ==
    LET P1 == AllocatePage(Pager) IN
    /\ numPages < MaxPages
    /\ SetPager(P1)
    /\ tables' = IF t \in DOMAIN tables THEN tables
                 ELSE tables @@ (t :> [FirstPageID |-> numPages])
    /\ meta' = IF t \in DOMAIN tables THEN meta ELSE save(tables', catIndexes)
    /\ ret' = IF t \in DOMAIN tables THEN ExecError("table already exists")
              ELSE NoRet
    /\ UNCHANGED <<unitVars, lockVars, tmVars, execVars, catIndexes, indexes, snap>>

InTransactionMutA(s) == FALSE

\* e.currentTx != nil
InTransaction(s) == currentTx[s] # NilTx

\* a transaction command that fails changes nothing
CommandFails(msg) ==
    /\ ret' = ExecError(msg)
    /\ UNCHANGED <<unitVars, lockVars, tmVars, execVars, pagerVars, catVars,
                   indexes, snap>>

executeBegin(s) ==
    LET txID == NewTxID(nextTxID) IN
    /\ pc[s] = "idle"
    /\ IF InTransaction(s)
       THEN CommandFails("transaction already in progress")
       ELSE /\ nextTxID <= MaxTx
            /\ nextTxID' = nextTxID + 1
            /\ activeTxs' = activeTxs \cup {txID}
            /\ txs' = Put(txs, txID, NewTransaction)
            /\ currentTx' = [currentTx EXCEPT ![s] = txID]
            /\ snap' = [snap EXCEPT ![s] = Snapshot]
            /\ ret' = NoRet
            /\ UNCHANGED <<unitVars, lockVars, pc, stmt, pagerVars, catVars, indexes>>

executeCommit(s) ==
    LET r == TMCommit(currentTx[s]) IN
    /\ pc[s] = "idle"
    /\ IF ~InTransaction(s)
       THEN CommandFails("no active transaction")
       ELSE /\ activeTxs' = r.activeTxs /\ txs' = r.txs
            /\ tableLocks' = r.locks
            /\ SetPager(r.P)
            /\ currentTx' = IF r.err = "" THEN [currentTx EXCEPT ![s] = NilTx]
                             ELSE currentTx
            /\ snap' = [snap EXCEPT ![s] = NoSnap]
            /\ ret' = IF r.err = "" THEN NoRet ELSE ExecError(r.err)
            /\ UNCHANGED <<unitVars, wait, nextTxID, pc, stmt, catVars, indexes>>

executeRollback(s) ==
    LET r == TMRollback(currentTx[s]) IN
    /\ pc[s] = "idle"
    /\ IF ~InTransaction(s)
       THEN CommandFails("no active transaction")
       ELSE /\ activeTxs' = r.activeTxs /\ txs' = r.txs
            /\ tableLocks' = r.locks
            /\ SetPager(r.P)
            /\ currentTx' = IF r.err = "" THEN [currentTx EXCEPT ![s] = NilTx]
                             ELSE currentTx
            /\ snap' = SnapAfter(s, r.P, NoSnap)
            /\ ret' = IF r.err = "" THEN NoRet ELSE ExecError(r.err)
            /\ UNCHANGED <<unitVars, wait, nextTxID, pc, stmt, catVars, indexes>>

\* Commit and Rollback called for an id that is not in activeTxs
CommitNotActive(txID) ==
    LET r == TMCommit(txID) IN
    /\ txID \notin activeTxs
    /\ activeTxs' = r.activeTxs /\ txs' = r.txs
    /\ tableLocks' = r.locks
    /\ SetPager(r.P)
    /\ ret' = [op |-> "tm", err |-> r.err]
    /\ UNCHANGED <<unitVars, wait, nextTxID, execVars, catVars, indexes, snap>>

RollbackNotActive(txID) ==
    LET r == TMRollback(txID) IN
    /\ txID \notin activeTxs
    /\ activeTxs' = r.activeTxs /\ txs' = r.txs
    /\ tableLocks' = r.locks
    /\ SetPager(r.P)
    /\ ret' = [op |-> "tm", err |-> r.err]
    /\ UNCHANGED <<unitVars, wait, nextTxID, execVars, catVars, indexes, snap>>


\* INSERT / UPDATE up to the return of AcquireWriteLock.  A request the
\* lock manager does not grant stays in its loop and changes nothing.  The
\* statement's values are not looked at before the lock is held.
AcquireForWrite(s, kind, t) ==
    LET txID == getCurrentTxID(s)
        locks == EnsureLock(tableLocks, t)
    IN /\ pc[s] = "idle"
       /\ t \in DOMAIN tables
       /\ CanWrite(locks[t], txID)
       /\ tableLocks' = [locks EXCEPT ![t] = GrantWrite(@, txID)]
       /\ pc' = [pc EXCEPT ![s] = "locked"]
       /\ stmt' = [stmt EXCEPT ![s] = [kind |-> kind, table |-> t]]
       /\ ret' = NoRet
       /\ UNCHANGED <<unitVars, wait, tmVars, currentTx, pagerVars, catVars, indexes, snap>>

\* explored while the heap can still take a row
InsertAcquire(s, t) ==
    /\ t \in DOMAIN tables
    /\ WithinBounds(InsertRow(Pager, tables[t].FirstPageID,
                              [Deleted |-> FALSE, val |-> 0]))
    /\ AcquireForWrite(s, "insert", t)

UpdateAcquire(s, t) == AcquireForWrite(s, "update", t)

\* the end of executeInsert / executeUpdate: auto-commit releases and flushes
FinishWrite(s, P1, ixs1, ops) ==
    LET auto == currentTx[s] = NilTx IN
    /\ WithinBounds(P1)
    /\ SetPager(IF auto THEN FlushAll(P1) ELSE P1)
    /\ indexes' = ixs1
    /\ txs' = IF auto THEN txs
              ELSE [txs EXCEPT ![currentTx[s]].Operations = @ \o ops]
    /\ tableLocks' = IF auto THEN ReleaseLocks(tableLocks, 0) ELSE tableLocks
    /\ pc' = [pc EXCEPT ![s] = "idle"]
    /\ stmt' = [stmt EXCEPT ![s] = NoStmt]
    /\ snap' = SnapAfter(s, P1, snap[s])
    /\ ret' = NoRet
    /\ UNCHANGED <<unitVars, wait, nextTxID, activeTxs, currentTx, catVars>>

\* INSERT INTO t VALUES (v), from the lock on
executeInsert(s, v) ==
    LET t == stmt[s].table
        row == [Deleted |-> FALSE, val |-> v]
        \* row.ID is never assigned: the index entry and the logged
        \* operation carry the zero RowID
        P1 == InsertRow(Pager, tables[t].FirstPageID, row)
        ixs1 == InsertEntry(indexes, t, v, ZeroRowID)
        op == Operation("OpInsert", t, ZeroRowID, ZeroRowID, ZeroRowID)
    IN /\ pc[s] = "locked" /\ stmt[s].kind = "insert"
       /\ FinishWrite(s, P1, ixs1, <<op>>)

Matches(val, operator, key) ==
    CASE operator = "=" -> val = key
      [] operator = "<" -> val < key
      [] operator = "<=" -> val <= key
      [] operator = ">" -> val > key
      [] operator = ">=" -> val >= key

\* the loop of executeUpdate over the rows read before it: W = [P, ixs, ops]
RECURSIVE updateRows(_, _, _, _, _, _)
updateRows(W, allRows, i, t, k, v) ==
    IF i > Len(allRows) THEN W
    ELSE LET row == allRows[i] IN
         IF row.Deleted \/ ~Matches(row.val, "=", k)
         THEN updateRows(W, allRows, i + 1, t, k, v)
         ELSE LET ixs1 == DeleteEntry(W.ixs, t, row.val, row.ID)
                  newRow == [Deleted |-> FALSE, val |-> v]
                  u == UpdateRow(W.P, tables[t].FirstPageID, row.ID, newRow)
                  ixs2 == InsertEntry(ixs1, t, v, ZeroRowID)
                  op == Operation("OpUpdate", t, row.ID, row.ID, ZeroRowID)
              IN updateRows([P |-> u.P, ixs |-> ixs2, ops |-> Append(W.ops, op)],
                            allRows, i + 1, t, k, v)

\* UPDATE t SET c = v WHERE c = k, from the lock on
executeUpdate(s, k, v) ==
    LET t == stmt[s].table
        W == updateRows([P |-> Pager, ixs |-> indexes, ops |-> <<>>],
                        GetAllRowsWithDeleted(Pager, tables[t].FirstPageID, TRUE),
                        1, t, k, v)
    IN /\ pc[s] = "locked" /\ stmt[s].kind = "update"
       /\ FinishWrite(s, W.P, W.ixs, W.ops)

\* the loop of executeDelete: W = [P, ixs]
RECURSIVE deleteRows(_, _, _, _, _)
deleteRows(W, allRows, i, t, k) ==
    IF i > Len(allRows) THEN W
    ELSE LET row == allRows[i] IN
         IF row.Deleted \/ ~Matches(row.val, "=", k)
         THEN deleteRows(W, allRows, i + 1, t, k)
         ELSE deleteRows([P |-> MarkRowDeleted(W.P, row.ID).P,
                          ixs |-> DeleteEntry(W.ixs, t, row.val, row.ID)],
                         allRows, i + 1, t, k)

\* DELETE FROM t WHERE c = k: no lock is taken, no operation is logged
executeDelete(s, t, k) ==
    LET W == deleteRows([P |-> Pager, ixs |-> indexes],
                        GetAllRowsWithDeleted(Pager, tables[t].FirstPageID, TRUE), 1, t, k)
    IN /\ pc[s] = "idle"
       /\ t \in DOMAIN tables
       /\ SetPager(W.P)
       /\ indexes' = W.ixs
       /\ snap' = SnapAfter(s, W.P, IF currentTx[s] = NilTx THEN snap[s]
                                    ELSE [snap[s] EXCEPT !.deleted = TRUE])
       /\ ret' = NoRet
       /\ UNCHANGED <<unitVars, lockVars, tmVars, execVars, catVars>>


\* CREATE INDEX n ON t (c): the tree is built from the live rows, each
\* with the id the scan gave it
RECURSIVE buildIndex(_, _, _)
buildIndex(tree, rows, i) ==
    IF i > Len(rows) THEN tree
    ELSE buildIndex(tree \cup {IndexEntry(rows[i].val, rows[i].ID)}, rows, i + 1)

executeCreateIndex(n, t) ==
    /\ n \notin DOMAIN catIndexes
    /\ t \in DOMAIN tables
    /\ catIndexes' = Put(catIndexes, n, t)
    /\ meta' = save(tables, catIndexes')
    /\ indexes' =
         IF n \in DOMAIN indexes THEN indexes
         ELSE Put(indexes, n,
                  [NewIndex(t) EXCEPT !.tree =
                     buildIndex({}, GetAllRows(Pager, tables[t].FirstPageID), 1)])
    /\ ret' = NoRet
    /\ UNCHANGED <<unitVars, lockVars, tmVars, execVars, pagerVars, tables, snap>>

executeDropIndex(n) ==
    /\ n \in DOMAIN indexes
    /\ indexes' = [x \in DOMAIN indexes \ {n} |-> indexes[x]]
    /\ catIndexes' = [x \in DOMAIN catIndexes \ {n} |-> catIndexes[x]]
    /\ meta' = save(tables, catIndexes')
    /\ ret' = NoRet
    /\ UNCHANGED <<unitVars, lockVars, tmVars, execVars, pagerVars, tables, snap>>

Operators == {"=", "<", "<=", ">", ">="}

Vals_(rows) == [i \in 1 .. Len(rows) |-> rows[i].val]

\* getRowsByIDs: [err, vals]; the first id that cannot be read fails the call
getRowsByIDs(P, rowIDs) ==
    IF \E i \in 1 .. Len(rowIDs) : ~HasRow(P, rowIDs[i])
    THEN [err |-> TRUE, vals |-> <<>>]
    ELSE LET rows == [i \in 1 .. Len(rowIDs) |->
                        P.pageCache[rowIDs[i][1]].rows[rowIDs[i][2] + 1]]
         IN [err |-> FALSE,
             vals |-> Vals_(SelectSeq(rows, LAMBDA r : ~r.Deleted))]

\* tryIndexScan through index n
IndexScan(P, n, operator, key) ==
    getRowsByIDs(P, IF operator = "=" THEN Search(indexes[n].tree, key)
                    ELSE RangeSearch(indexes[n].tree, operator, key))

\* GetAllRows, then filterRows
FullScan(P, t, operator, key) ==
    [err |-> FALSE,
     vals |-> Vals_(SelectSeq(GetAllRows(P, tables[t].FirstPageID),
                              LAMBDA r : operator = "*" \/ Matches(r.val, operator, key)))]

\* SELECT * FROM t WHERE c operator k ("*": no WHERE clause).  Nothing is
\* locked and nothing is changed; ret is what the statement returns.
executeSelect(s, t, operator, key) ==
    /\ pc[s] = "idle"
    /\ t \in DOMAIN tables
    /\ \/ /\ operator # "*"
          /\ \E n \in IndexesByColumn(indexes, t) :
                ret' = [op |-> "select", used |-> TRUE,
                        res |-> IndexScan(Pager, n, operator, key)]
       \/ /\ operator = "*" \/ IndexesByColumn(indexes, t) = {}
          /\ ret' = [op |-> "select", used |-> FALSE,
                     res |-> FullScan(Pager, t, operator, key)]
    /\ UNCHANGED <<unitVars, lockVars, tmVars, execVars, pagerVars, catVars, indexes, snap>>

\* Two sessions with transactions, on tables without an index
Next ==
    \/ \E t \in Tables : executeCreateTable(t)
    \/ \E s \in Sessions : executeBegin(s)
    \/ \E s \in Sessions : executeCommit(s)
    \/ \E s \in Sessions : executeRollback(s)
    \/ \E txID \in 0 .. MaxTx + 1 : CommitNotActive(txID)
    \/ \E txID \in 0 .. MaxTx + 1 : RollbackNotActive(txID)
    \/ \E s \in Sessions, t \in Tables : InsertAcquire(s, t)
    \/ \E s \in Sessions, v \in Vals : executeInsert(s, v)
    \/ \E s \in Sessions, t \in Tables : UpdateAcquire(s, t)
    \/ \E s \in Sessions, k \in Vals, v \in Vals : executeUpdate(s, k, v)
    \/ \E s \in Sessions, t \in Tables, k \in Vals : executeDelete(s, t, k)
    \/ \E s \in Sessions, t \in Tables : executeSelect(s, t, "*", 0)

Spec == Init /\ [][Next]_vars

\* One session, with CREATE INDEX, DROP INDEX and SELECT ... WHERE
NextIndex ==
    \/ \E t \in Tables : executeCreateTable(t)
    \/ \E n \in IndexNames, t \in Tables : executeCreateIndex(n, t)
    \/ \E n \in IndexNames : executeDropIndex(n)
    \/ executeBegin("s1")
    \/ executeCommit("s1")
    \/ executeRollback("s1")
    \/ \E t \in Tables : InsertAcquire("s1", t)
    \/ \E v \in Vals : executeInsert("s1", v)
    \/ \E t \in Tables : UpdateAcquire("s1", t)
    \/ \E k \in Vals, v \in Vals : executeUpdate("s1", k, v)
    \/ \E t \in Tables, k \in Vals : executeDelete("s1", t, k)
    \/ \E t \in Tables, o \in Operators, k \in Vals : executeSelect("s1", t, o, k)

SpecIndex == Init /\ [][NextIndex]_vars


(***************************************************************************)
(* Claims about the sessions, the transaction manager and the pager.       *)
(***************************************************************************)
\* the values SELECT * FROM t returns
Live(t) == LiveVals(Pager, tables, t)

\* session s is at a statement that holds the write lock it asked for
InWrite(s, t) == pc[s] = "locked" /\ stmt[s].table = t

\* C2: writes to a table are serialized: at any time at most one statement
\* is between its successful AcquireWriteLock on table t and the release of
\* that lock, whether the writers are auto-commit statements (lock id 0) or
\* statements of explicit transactions.
C2_WritesSerialized ==
    \A t \in Tables : \A s1 \in Sessions, s2 \in Sessions :
        (InWrite(s1, t) /\ InWrite(s2, t)) => s1 = s2

\* session s's ROLLBACK returns in this step
RollsBack(s) ==
    /\ currentTx[s] # NilTx
    /\ currentTx'[s] = NilTx
    /\ txs'[currentTx[s]].Status = "Aborted"

\* C3: atomicity: after BEGIN; S1; ...; Sn; ROLLBACK with INSERT and UPDATE
\* statements, the live values of every table no other session has written
\* meanwhile are those a SELECT returned immediately before the BEGIN.
C3_RollbackRestoresSnapshot ==
    [][\A s \in Sessions : (RollsBack(s) /\ ~snap[s].deleted) =>
         \A t \in Tables : snap[s].tabs[t].valid => Live(t)' = snap[s].tabs[t].vals]_vars

\* C4: a DELETE inside an explicit transaction is undone by ROLLBACK: after
\* BEGIN; DELETE ...; ROLLBACK every row that was live before the BEGIN is
\* live again and returned by SELECT *.
C4_DeleteRolledBack ==
    [][\A s \in Sessions :
         (RollsBack(s) /\ snap[s].deleted /\ txs[currentTx[s]].Operations = <<>>) =>
         \A t \in Tables :
            snap[s].tabs[t].valid => snap[s].tabs[t].vals \subseteq Live(t)']_vars

\* C5: isolation (READ COMMITTED): while a transaction T is active, a
\* SELECT * of table t by another session returns neither rows T inserted or
\* updated nor misses rows T deleted: with no other writer since T's BEGIN
\* it returns the values the table had at T's BEGIN.
C5_ReadCommitted ==
    [][\A s \in Sessions, t \in Tables :
         executeSelect(s, t, "*", 0) =>
         \A T \in Sessions \ {s} :
            (currentTx[T] # NilTx /\ snap[T].tabs[t].valid) =>
            Range(ret'.res.vals) = snap[T].tabs[t].vals]_vars

\* C6: durability: when Commit(tx) returns success, every cached page has
\* been written to the file and the file has been synced after the last
\* write, so each page's image in the file is its cached image.
C6_CommitDurable ==
    [][\A txID \in activeTxs :
         txs'[txID].Status = "Committed" => (file' = pageCache' /\ unsynced' = {})]_vars

\* C6 witness: a committed transaction, its row in the synced file
C6_Witness ==
    /\ \E txID \in DOMAIN txs : txs[txID].Status = "Committed"
    /\ unsynced = {} /\ file = pageCache
    /\ \E t \in DOMAIN tables : Live(t) # {}
    /\ \A s \in Sessions : currentTx[s] = NilTx /\ pc[s] = "idle"

\* C8: a transaction goes only Active -> Committed or Active -> Aborted and
\* both are terminal; Commit or Rollback of an id that is not active returns
\* the not-found error and changes no status, no lock and no page.
C8_TxStateMachine ==
    /\ [][\A txID \in DOMAIN txs :
            /\ txID \in DOMAIN txs'
            /\ txs[txID].Status # "Active" => txs'[txID].Status = txs[txID].Status]_vars
    /\ [][\A txID \in DOMAIN txs' \ DOMAIN txs : txs'[txID].Status = "Active"]_vars
    /\ [][ret'.op = "tm" =>
            /\ ret'.err = "not found"
            /\ UNCHANGED <<txs, activeTxs, tableLocks, pagerVars>>]_vars
    /\ [](\A txID \in DOMAIN txs : txs[txID].Status = "Active" <=> txID \in activeTxs)

\* C8 witness: a call for a finished id has returned not-found while a
\* transaction is committed, another aborted, and pages and a lock exist
C8_Witness ==
    /\ ret = [op |-> "tm", err |-> "not found"]
    /\ \E a \in DOMAIN txs, b \in DOMAIN txs :
          txs[a].Status = "Committed" /\ txs[b].Status = "Aborted"
    /\ numPages > 0
    /\ \E t \in DOMAIN tableLocks : tableLocks[t].readers # {}

\* C9: Begin returns pairwise distinct, strictly increasing ids starting at
\* 1; id 0 is never returned and never a key of the active map.
C9_TxIds ==
    /\ [](/\ 0 \notin activeTxs
          /\ activeTxs \subseteq DOMAIN txs
          /\ DOMAIN txs = 1 .. (nextTxID - 1))
    /\ [][\A txID \in DOMAIN txs' \ DOMAIN txs :
            /\ txID = nextTxID /\ nextTxID' = nextTxID + 1
            /\ txID \in activeTxs'
            /\ \A old \in DOMAIN txs : old < txID]_vars

\* C9 witness: both sessions are inside a transaction, ids 1 and 2
C9_Witness ==
    /\ activeTxs = 1 .. MaxTx
    /\ \A s \in Sessions : currentTx[s] \in activeTxs
    /\ \E s1 \in Sessions, s2 \in Sessions : currentTx[s1] # currentTx[s2]

\* the same rows, whatever their order
SameRows(a, b) ==
    \A v \in Vals : Cardinality({i \in 1 .. Len(a) : a[i] = v})
                      = Cardinality({i \in 1 .. Len(b) : b[i] = v})

\* C10: plan equivalence: SELECT * FROM t WHERE c op k answered through an
\* index on c returns the rows the full scan returns.
C10_PlanEquivalence ==
    [][\A t \in Tables, o \in Operators, k \in Vals :
         (executeSelect("s1", t, o, k) /\ ret'.used) =>
         (~ret'.res.err /\ SameRows(ret'.res.vals, FullScan(Pager, t, o, k).vals))]_vars

\* the RowIDs in seq are in strictly ascending (PageID, RowIndex) order
AscendingRowIDs(seq) ==
    \A i \in 1 .. Len(seq), j \in 1 .. Len(seq) :
        i < j => (seq[i][1] < seq[j][1]
                  \/ (seq[i][1] = seq[j][1] /\ seq[i][2] < seq[j][2]))

\* C11: with every mutation made by the executor, Search(k) on an index
\* over table t returns exactly the RowIDs of the live rows of t whose
\* column equals k, in ascending (PageID, RowIndex) order.
C11_SearchExact ==
    \A n \in DOMAIN indexes : \A k \in Vals :
        LET t == indexes[n].TableName
            found == Search(indexes[n].tree, k)
        IN t \in DOMAIN tables =>
             /\ Range(found) =
                   {r.ID : r \in {x \in Range(GetAllRows(Pager, tables[t].FirstPageID)) :
                                    x.val = k}}
             /\ AscendingRowIDs(found)

(***************************************************************************)
(* SpecTree: the index API called directly: IndexManager.CreateIndex,      *)
(* Index.Insert, Index.Delete, Index.Search and Index.RangeSearch, with    *)
(* any key and any RowID.                                                  *)
(***************************************************************************)
\* the RowIDs entries are inserted with
TreeRowIDs == {RowID(0, 0), RowID(0, 1), RowID(1, 0)}

\* the keys searched for: the keys of the entries, and one below and above
ProbeKeys == 0 .. 3

RangeOperators == {"<", "<=", ">", ">="}

IMCreateIndex(n, t) ==
    /\ n \notin DOMAIN indexes
    /\ indexes' = Put(indexes, n, NewIndex(t))
    /\ ret' = NoRet
    /\ UNCHANGED <<unitVars, lockVars, tmVars, execVars, pagerVars, catVars, snap>>

\* tree.ReplaceOrInsert
IndexInsert(n, key, rowID) ==
    /\ n \in DOMAIN indexes
    /\ indexes' = [indexes EXCEPT ![n].tree = @ \cup {IndexEntry(key, rowID)}]
    /\ ret' = NoRet
    /\ UNCHANGED <<unitVars, lockVars, tmVars, execVars, pagerVars, catVars, snap>>

IndexDelete(n, key, rowID) ==
    /\ n \in DOMAIN indexes
    /\ indexes' = [indexes EXCEPT ![n].tree = @ \ {IndexEntry(key, rowID)}]
    /\ ret' = NoRet
    /\ UNCHANGED <<unitVars, lockVars, tmVars, execVars, pagerVars, catVars, snap>>

IndexSearch(n, key) ==
    /\ n \in DOMAIN indexes
    /\ ret' = [op |-> "Search", operator |-> "=", key |-> key,
               res |-> Search(indexes[n].tree, key)]
    /\ UNCHANGED <<unitVars, lockVars, tmVars, execVars, pagerVars, catVars,
                   indexes, snap>>

IndexRangeSearch(n, operator, key) ==
    /\ n \in DOMAIN indexes
    /\ ret' = [op |-> "RangeSearch", operator |-> operator, key |-> key,
               res |-> RangeSearch(indexes[n].tree, operator, key)]
    /\ UNCHANGED <<unitVars, lockVars, tmVars, execVars, pagerVars, catVars,
                   indexes, snap>>

NextTree ==
    \/ \E n \in IndexNames, t \in Tables : IMCreateIndex(n, t)
    \/ \E n \in IndexNames, k \in Vals, r \in TreeRowIDs : IndexInsert(n, k, r)
    \/ \E n \in IndexNames, k \in Vals, r \in TreeRowIDs : IndexDelete(n, k, r)
    \/ \E n \in IndexNames, k \in ProbeKeys : IndexSearch(n, k)
    \/ \E n \in IndexNames, o \in RangeOperators, k \in ProbeKeys :
          IndexRangeSearch(n, o, k)

SpecTree == Init /\ [][NextTree]_vars

\* entry a comes before entry b: by key, then PageID, then RowIndex
Before(a, b) ==
    \/ a.Key < b.Key
    \/ a.Key = b.Key /\ a.RowID[1] < b.RowID[1]
    \/ a.Key = b.Key /\ a.RowID[1] = b.RowID[1] /\ a.RowID[2] < b.RowID[2]

\* the RowIDs of the entries in set, each at the place its rank gives it
RowIDsInOrder(set) ==
    [i \in 1 .. Cardinality(set) |->
       (CHOOSE e \in set : Cardinality({o \in set : Before(o, e)}) = i - 1).RowID]

\* C12: for every operator in <, <=, >, >= and every key k, RangeSearch
\* returns the RowID of every entry whose key stands in that relation to k
\* and of no other entry, by ascending key and then ascending RowID, with
\* duplicate keys and entries whose RowID is {0,0} included.
C12_RangeSearchExact ==
    [][\A n \in IndexNames, o \in RangeOperators, k \in ProbeKeys :
         IndexRangeSearch(n, o, k) =>
            ret'.res = RowIDsInOrder({e \in indexes[n].tree : Matches(e.Key, o, k)})]_vars

\* C12 witness: a range search returned three RowIDs, {0,0} twice among
\* them, from a tree that holds a key twice
C12_Witness ==
    /\ ret.op = "RangeSearch" /\ Len(ret.res) = 3
    /\ Cardinality({i \in 1 .. Len(ret.res) : ret.res[i] = ZeroRowID}) = 2
    /\ \E n \in DOMAIN indexes :
          /\ ret.res = RangeSearch(indexes[n].tree, ret.operator, ret.key)
          /\ \E a \in indexes[n].tree, b \in indexes[n].tree :
                a.Key = b.Key /\ a.RowID # b.RowID

(***************************************************************************)
(* SpecPage: one storage.Page with its Data in bytes.  offset counts from  *)
(* 0 as in the code; Data[offset + 1] is the byte at that offset.  A slice *)
(* or index expression outside Data panics.                                *)
(***************************************************************************)
\* the 4 bytes of length in front of every record
LenPrefix == 4

PayloadBytes == {1, 2}

\* the row data handed to WriteRow and UpdateRow
Payloads == UNION {[1 .. n -> PayloadBytes] : n \in 0 .. MaxLen}

\* binary.LittleEndian.Uint32(p.Data[offset : offset+4])
Uint32(Data, offset) ==
    Data[offset + 1] + 256 * Data[offset + 2] + 65536 * Data[offset + 3]
        + 16777216 * Data[offset + 4]

\* binary.LittleEndian.PutUint32
PutUint32(n) ==
    <<n % 256, (n \div 256) % 256, (n \div 65536) % 256, (n \div 16777216) % 256>>

\* copy(p.Data[offset:], bytes)
Overwrite(Data, offset, bytes) ==
    [i \in 1 .. Len(Data) |->
       IF offset < i /\ i <= offset + Len(bytes) THEN bytes[i - offset] ELSE Data[i]]

\* the loop over the length prefixes of n records, from offset on: the
\* offset after them, or -1 when a prefix lies outside Data (panic)
RECURSIVE Walk(_, _, _)
Walk(Data, offset, n) ==
    IF n = 0 THEN offset
    ELSE IF offset + LenPrefix > Len(Data) THEN -1
    ELSE Walk(Data, offset + LenPrefix + Uint32(Data, offset), n - 1)

\* Page.IsFull
PageIsFull(pg) == pg.RowCount >= PageCap

NotEnoughSpaceMutA(Data, offset, n) == offset + LenPrefix + n >= Len(Data)

\* offset+4+len(rowData) > len(p.Data)
NotEnoughSpace(Data, offset, n) == offset + LenPrefix + n > Len(Data)

\* Page.WriteRow: [err, page]
PageWriteRow(pg, rowData) ==
    LET offset == Walk(pg.Data, 0, pg.RowCount) IN
    IF PageIsFull(pg) THEN [err |-> "page is full", page |-> pg]
    ELSE IF offset = -1 THEN [err |-> "panic", page |-> pg]
    ELSE IF NotEnoughSpace(pg.Data, offset, Len(rowData))
         THEN [err |-> "not enough space in page", page |-> pg]
    ELSE [err |-> "",
          page |-> [RowCount |-> pg.RowCount + 1,
                    Data |-> Overwrite(pg.Data, offset,
                                       PutUint32(Len(rowData)) \o rowData)]]

\* Page.ReadRow: [err, data]
PageReadRow(pg, index) ==
    LET offset == Walk(pg.Data, 0, index) IN
    IF index >= pg.RowCount THEN [err |-> "row index out of range", data |-> <<>>]
    ELSE IF offset = -1 \/ offset + LenPrefix > Len(pg.Data)
         THEN [err |-> "panic", data |-> <<>>]
    ELSE LET rowLen == Uint32(pg.Data, offset) IN
         IF offset + LenPrefix + rowLen > Len(pg.Data)
         THEN [err |-> "panic", data |-> <<>>]
         ELSE [err |-> "",
               data |-> SubSeq(pg.Data, offset + LenPrefix + 1,
                               offset + LenPrefix + rowLen)]

\* Page.UpdateRow: [err, page]
PageUpdateRow(pg, index, newRowData) ==
    LET offset == Walk(pg.Data, 0, index)
        newRowLen == Len(newRowData)
    IN
    IF index >= pg.RowCount THEN [err |-> "row index out of range", page |-> pg]
    ELSE IF offset = -1 \/ offset + LenPrefix > Len(pg.Data)
         THEN [err |-> "panic", page |-> pg]
    ELSE LET oldRowLen == Uint32(pg.Data, offset) IN
         IF newRowLen > oldRowLen
         THEN [err |-> "new row data is larger than old row data", page |-> pg]
         ELSE IF offset + LenPrefix + newRowLen > Len(pg.Data)
                 \/ (newRowLen < oldRowLen
                     /\ offset + LenPrefix + oldRowLen > Len(pg.Data))
              THEN [err |-> "panic", page |-> pg]
         ELSE [err |-> "",
               page |-> [pg EXCEPT !.Data =
                  Overwrite(pg.Data, offset,
                            PutUint32(newRowLen) \o newRowData
                              \o [i \in 1 .. oldRowLen - newRowLen |-> 0])]]

\* the loop of Page.GetAllRows over n records from offset on: [err, rows]
RECURSIVE GetRowsFrom(_, _, _, _)
GetRowsFrom(Data, offset, n, rows) ==
    IF n = 0 THEN [err |-> "", rows |-> rows]
    ELSE IF offset + LenPrefix > Len(Data)
         THEN [err |-> "corrupted page data", rows |-> <<>>]
    ELSE LET rowLen == Uint32(Data, offset) IN
         IF offset + LenPrefix + rowLen > Len(Data)
         THEN [err |-> "corrupted page data", rows |-> <<>>]
         ELSE GetRowsFrom(Data, offset + LenPrefix + rowLen, n - 1,
                          Append(rows, SubSeq(Data, offset + LenPrefix + 1,
                                              offset + LenPrefix + rowLen)))

\* Page.GetAllRows: [err, rows]
PageGetAllRows(pg) == GetRowsFrom(pg.Data, 0, pg.RowCount, <<>>)

PWriteRow(rowData) ==
    LET r == PageWriteRow(thePage, rowData) IN
    /\ thePage' = r.page
    /\ ret' = [op |-> "WriteRow", err |-> r.err]
    /\ UNCHANGED <<value, undo, insert, lockVars, tmVars, execVars, pagerVars, catVars,
                   indexes, snap>>

PReadRow(index) ==
    /\ ret' = [op |-> "ReadRow"] @@ PageReadRow(thePage, index)
    /\ UNCHANGED <<unitVars, lockVars, tmVars, execVars, pagerVars, catVars,
                   indexes, snap>>

PUpdateRow(index, newRowData) ==
    LET r == PageUpdateRow(thePage, index, newRowData) IN
    /\ thePage' = r.page
    /\ ret' = [op |-> "UpdateRow", err |-> r.err]
    /\ UNCHANGED <<value, undo, insert, lockVars, tmVars, execVars, pagerVars, catVars,
                   indexes, snap>>

PGetAllRows ==
    /\ ret' = [op |-> "GetAllRows"] @@ PageGetAllRows(thePage)
    /\ UNCHANGED <<unitVars, lockVars, tmVars, execVars, pagerVars, catVars,
                   indexes, snap>>

NextOnePage ==
    \/ \E b \in Payloads : PWriteRow(b)
    \/ \E i \in 0 .. PageCap : PReadRow(i)
    \/ \E i \in 0 .. PageCap, b \in Payloads : PUpdateRow(i, b)
    \/ PGetAllRows

SpecPage == Init /\ [][NextOnePage]_vars

\* C13: for every slot idx < RowCount and every payload b no longer than
\* the record in slot idx, after UpdateRow(idx, b) ReadRow(idx) returns b,
\* ReadRow(j) returns for every other slot j what it returned before, and
\* RowCount is unchanged.
C13_UpdateRowInPlace ==
    [][\A idx \in 0 .. PageCap, b \in Payloads :
         (/\ PUpdateRow(idx, b)
          /\ idx < thePage.RowCount
          /\ PageReadRow(thePage, idx).err = ""
          /\ Len(b) <= Len(PageReadRow(thePage, idx).data))
         => /\ ret'.err = ""
            /\ PageReadRow(thePage', idx) = [err |-> "", data |-> b]
            /\ \A j \in 0 .. PageCap :
                  (j # idx /\ j < thePage.RowCount)
                     => PageReadRow(thePage', j) = PageReadRow(thePage, j)
            /\ thePage'.RowCount = thePage.RowCount]_vars

\* the bytes of Data after the records the page holds
Remaining(pg) == Len(pg.Data) - Walk(pg.Data, 0, pg.RowCount)

\* what a successful WriteRow(b) does: b is the record after the last one,
\* RowCount grows by one, every earlier record reads as before
Appended(b) ==
    /\ thePage'.RowCount = thePage.RowCount + 1
    /\ PageReadRow(thePage', thePage.RowCount) = [err |-> "", data |-> b]
    /\ \A j \in 0 .. PageCap :
          j < thePage.RowCount => PageReadRow(thePage', j) = PageReadRow(thePage, j)

\* C14 as stated: WriteRow(b) fails exactly when the body bytes remaining
\* after the existing records are fewer than 4 + len(b); in every other
\* case it stores b after the last record, increments RowCount and leaves
\* the earlier records unchanged.
C14_WriteRowFullExactly ==
    [][\A b \in Payloads :
         (PWriteRow(b) /\ Walk(thePage.Data, 0, thePage.RowCount) # -1) =>
            /\ ret'.err # "" <=> Remaining(thePage) < LenPrefix + Len(b)
            /\ ret'.err = "" => Appended(b)]_vars

\* C14 amended: WriteRow(b) fails exactly when the page already holds
\* MaxRowsPerPage records or the remaining body bytes are fewer than
\* 4 + len(b), and then changes nothing; in every other case it appends b.
\* (It panics only when the walk over the length prefixes leaves Data.)
C14_WriteRowFull ==
    [][\A b \in Payloads :
         PWriteRow(b) =>
            LET used == Walk(thePage.Data, 0, thePage.RowCount) IN
            /\ ret'.err = "panic" <=> (thePage.RowCount < PageCap /\ used = -1)
            /\ ret'.err \notin {"", "panic"}
                  <=> \/ thePage.RowCount >= PageCap
                      \/ used # -1 /\ Remaining(thePage) < LenPrefix + Len(b)
            /\ ret'.err # "" => thePage' = thePage
            /\ ret'.err = "" => Appended(b)]_vars

\* C14 witness: a WriteRow failed for lack of space on a page that is not
\* at its row limit and still has room for a shorter record
C14_Witness ==
    /\ ret = [op |-> "WriteRow", err |-> "not enough space in page"]
    /\ thePage.RowCount = 1
    /\ Remaining(thePage) >= LenPrefix

(***************************************************************************)
(* SpecHeap: the table heap called directly: NewTableStorage for two       *)
(* tables over one pager, InsertRow, MarkRowDeleted with any RowID, and    *)
(* GetAllRows.                                                             *)
(***************************************************************************)
HeapWithinBounds(P) ==
    P.numPages <= HeapMaxPages /\ RowsInPages(P, P.numPages) <= HeapMaxRows

\* the RowIDs MarkRowDeleted is called with: slots that exist and that do not
HeapRowIDs == {RowID(p, i) : p \in 0 .. HeapMaxPages - 1, i \in 0 .. PageCap}

HNewTableStorage(t) ==
    /\ t \notin DOMAIN tables
    /\ numPages < HeapMaxPages
    /\ SetPager(AllocatePage(Pager))
    /\ tables' = tables @@ (t :> [FirstPageID |-> numPages])
    /\ ret' = NoRet
    /\ UNCHANGED <<unitVars, lockVars, tmVars, execVars, catIndexes, meta, indexes,
                   snap>>

HInsertRow(t, v) ==
    /\ t \in DOMAIN tables
    /\ LET P1 == InsertRow(Pager, tables[t].FirstPageID,
                           [Deleted |-> FALSE, val |-> v])
       IN HeapWithinBounds(P1) /\ SetPager(P1)
    /\ ret' = [op |-> "InsertRow"]
    /\ UNCHANGED <<unitVars, lockVars, tmVars, execVars, catVars, indexes, snap>>

\* the table a TableStorage was loaded for plays no part in MarkRowDeleted
HMarkRowDeleted(t, rowID) ==
    LET m == MarkRowDeleted(Pager, rowID) IN
    /\ t \in DOMAIN tables
    /\ SetPager(m.P)
    /\ ret' = [op |-> "MarkRowDeleted", rowID |-> rowID, err |-> m.err]
    /\ UNCHANGED <<unitVars, lockVars, tmVars, execVars, catVars, indexes, snap>>

HGetAllRows(t) ==
    /\ t \in DOMAIN tables
    /\ ret' = [op |-> "GetAllRows", table |-> t,
               rows |-> GetAllRows(Pager, tables[t].FirstPageID)]
    /\ UNCHANGED <<unitVars, lockVars, tmVars, execVars, pagerVars, catVars,
                   indexes, snap>>

NextHeap ==
    \/ \E t \in TableNames : HNewTableStorage(t)
    \/ \E t \in TableNames, v \in Vals : HInsertRow(t, v)
    \/ \E t \in TableNames, r \in HeapRowIDs : HMarkRowDeleted(t, r)
    \/ \E t \in TableNames : HGetAllRows(t)

SpecHeap == Init /\ [][NextHeap]_vars

\* every record of table t with its RowID, tombstoned ones included
Scan(t) == GetAllRowsWithDeleted(Pager, tables[t].FirstPageID, TRUE)

Without(seq, i) == SubSeq(seq, 1, i - 1) \o SubSeq(seq, i + 1, Len(seq))

\* the pages of a table, along NextPage
RECURSIVE Chain(_, _)
Chain(P, pageID) ==
    IF P.pageCache[pageID].NextPage = 0 THEN <<pageID>>
    ELSE <<pageID>> \o Chain(P, P.pageCache[pageID].NextPage)

PlaceInChain(chain, pageID) == CHOOSE i \in 1 .. Len(chain) : chain[i] = pageID

IntVals == -8 .. 8
FloatHalves == -4 .. 4
TextVals == UNION {[1 .. n -> {97, 98}] : n \in 0 .. 2}
DateSeconds == {-86400, 0, 86400}
DateNanos == {0, 1}

\* the builds whose float64 -> uint64 conversion of a negative value differ
Archs == {"amd64", "arm64"}

\* a float64 of 2^63 or more, beyond every other value of the model
HugeFloat == 2147483646

\* byte(v.Type)
TypeByte(type) ==
    CASE type = "TypeInt" -> 0 [] type = "TypeText" -> 1 [] type = "TypeBoolean" -> 2
      [] type = "TypeFloat" -> 3 [] type = "TypeDate" -> 4

\* binary.LittleEndian.PutUint64(buf, uint64(x)) for an int64 x
PutUint64(x) ==
    [i \in 1 .. 8 |->
       CASE i = 1 -> x % 256
         [] i = 2 -> (x \div 256) % 256
         [] i = 3 -> (x \div 65536) % 256
         [] OTHER -> IF x < 0 THEN 255 ELSE 0]

\* int64(binary.LittleEndian.Uint64(b))
Int64(b) ==
    IF b[8] >= 128
    THEN -(1 + (255 - b[1]) + 256 * (255 - b[2]) + 65536 * (255 - b[3]))
    ELSE b[1] + 256 * b[2] + 65536 * b[3]

\* the float64 2^63, in halves: the least float64 outside int64
Float2To63 == 2147483644

\* the uint64 2^63, byte by byte
Bits2To63 == <<0, 0, 0, 0, 0, 0, 0, 128>>

\* float64(binary.LittleEndian.Uint64(b)), in halves.  2^63 is a float64;
\* the uint64 of a small negative int64 is rounded up to 2^64.
Float64OfUint64(b) ==
    IF b[8] >= 128 THEN (IF b = Bits2To63 THEN Float2To63 ELSE HugeFloat)
    ELSE 2 * (b[1] + 256 * b[2] + 65536 * b[3])

\* toward zero
Trunc(halves) == IF halves >= 0 THEN halves \div 2 ELSE -((-halves) \div 2)

\* uint64(floatVal), as the int64 with the same bits.  A negative value is
\* outside uint64 and the result depends on the build: amd64 converts
\* through int64 and keeps the bits, arm64 saturates at 0.
Uint64OfFloat(halves, arch) ==
    IF halves >= 0 \/ arch = "amd64" THEN Trunc(halves) ELSE 0

\* binary.LittleEndian.PutUint64(floatBuf, uint64(floatVal)).  2^63 is
\* inside uint64.  2^64 is outside and the result depends on the build:
\* amd64 subtracts 2^63, converts through int64 and sets the top bit, which
\* leaves 2^63; arm64 saturates at 2^64 - 1.
PutFloat(halves, arch) ==
    IF halves = Float2To63 THEN Bits2To63
    ELSE IF halves = HugeFloat
         THEN (IF arch = "amd64" THEN Bits2To63 ELSE PutUint64(-1))
    ELSE PutUint64(Uint64OfFloat(halves, arch))

\* Value.Serialize
Serialize(v, arch) ==
    <<TypeByte(v.Type)>> \o
    CASE v.Type = "TypeInt" -> PutUint64(v.Data)
      [] v.Type = "TypeText" -> PutUint32(Len(v.Data)) \o v.Data
      [] v.Type = "TypeBoolean" -> IF v.Data THEN <<1>> ELSE <<0>>
      [] v.Type = "TypeFloat" -> PutFloat(v.Data, arch)
      [] v.Type = "TypeDate" -> PutUint64(v.Data.sec)

Failed(msg) == [err |-> msg, value |-> ZeroValue, n |-> 0]

\* types.Deserialize: [err, value, n]
Deserialize(data) ==
    IF Len(data) < 1 THEN Failed("data too short")
    ELSE CASE data[1] = 0 ->
                IF Len(data) < 9 THEN Failed("data too short for int")
                ELSE [err |-> "", n |-> 9,
                      value |-> [Type |-> "TypeInt", Data |-> Int64(SubSeq(data, 2, 9))]]
           [] data[1] = 1 ->
                IF Len(data) < 5 THEN Failed("data too short for text length")
                ELSE LET textLen == Uint32(data, 1) IN
                     IF Len(data) < 5 + textLen
                     THEN Failed("data too short for text content")
                     ELSE [err |-> "", n |-> 5 + textLen,
                           value |-> [Type |-> "TypeText",
                                      Data |-> SubSeq(data, 6, 5 + textLen)]]
           [] data[1] = 2 ->
                IF Len(data) < 2 THEN Failed("data too short for boolean")
                ELSE [err |-> "", n |-> 2,
                      value |-> [Type |-> "TypeBoolean", Data |-> data[2] = 1]]
           [] data[1] = 3 ->
                IF Len(data) < 9 THEN Failed("data too short for float")
                ELSE [err |-> "", n |-> 9,
                      value |-> [Type |-> "TypeFloat",
                                 Data |-> Float64OfUint64(SubSeq(data, 2, 9))]]
           [] data[1] = 4 ->
                IF Len(data) < 9 THEN Failed("data too short for date")
                ELSE [err |-> "", n |-> 9,
                      value |-> [Type |-> "TypeDate",
                                 Data |-> [sec |-> Int64(SubSeq(data, 2, 9)), nsec |-> 0]]]
           [] OTHER -> Failed("unsupported type")

NewValue(type, data) ==
    /\ value' = [Type |-> type, Data |-> data]
    /\ ret' = NoRet
    /\ UNCHANGED <<thePage, undo, insert, lockVars, tmVars, execVars, pagerVars, catVars,
                   indexes, snap>>

NewIntValue(v) == NewValue("TypeInt", v)
NewTextValue(v) == NewValue("TypeText", v)
NewBooleanValue(v) == NewValue("TypeBoolean", v)
NewFloatValue(v) == NewValue("TypeFloat", v)
NewDateValue(sec, nsec) == NewValue("TypeDate", [sec |-> sec, nsec |-> nsec])

VSerialize(arch) ==
    /\ ret' = [op |-> "Serialize", buf |-> Serialize(value, arch)]
    /\ UNCHANGED <<unitVars, lockVars, tmVars, execVars, pagerVars, catVars,
                   indexes, snap>>

\* Deserialize of the bytes Serialize returned
VDeserialize ==
    /\ ret.op = "Serialize"
    /\ ret' = [op |-> "Deserialize", len |-> Len(ret.buf)] @@ Deserialize(ret.buf)
    /\ UNCHANGED <<unitVars, lockVars, tmVars, execVars, pagerVars, catVars,
                   indexes, snap>>

NextCodec ==
    \/ \E v \in IntVals : NewIntValue(v)
    \/ \E v \in TextVals : NewTextValue(v)
    \/ \E v \in BOOLEAN : NewBooleanValue(v)
    \/ \E v \in FloatHalves : NewFloatValue(v)
    \/ \E sec \in DateSeconds, nsec \in DateNanos : NewDateValue(sec, nsec)
    \/ \E arch \in Archs : VSerialize(arch)
    \/ VDeserialize

SpecCodec == Init /\ [][NextCodec]_vars

\* C16: for every Value v of kind int, text, boolean, float or date,
\* Deserialize(Serialize(v)) returns a value equal to v and a consumed-byte
\* count equal to len(Serialize(v)); non-integral and negative floats
\* survive the round trip.
C16_CodecRoundTrip ==
    [][VDeserialize =>
         /\ ret'.err = ""
         /\ ret'.value = value
         /\ ret'.n = Len(ret.buf)]_vars

\* ---------------------------------------------------------------------------
\* Mutating statements of the executor
\* ---------------------------------------------------------------------------

\* the statement body of session s runs on table t in this step
MutatesTable(s, t) ==
    \/ \E k \in Vals : executeDelete(s, t, k)
    \/ /\ pc[s] = "locked" /\ stmt[s].table = t
       /\ \/ \E v \in Vals : executeInsert(s, v)
          \/ \E k \in Vals, v \in Vals : executeUpdate(s, k, v)

\* rows of t that the step turns into tombstones, and rows it adds
Tombstoned(t) ==
    Cardinality({i \in 1 .. Len(TableRows(Pager, t)) :
                   /\ ~TableRows(Pager, t)[i].Deleted
                   /\ TableRows(Pager, t)'[i].Deleted})

AffectedRows(t) ==
    IF Tombstoned(t) > 0 THEN Tombstoned(t)
    ELSE Len(TableRows(Pager, t)') - Len(TableRows(Pager, t))

\* C17: a mutating statement (INSERT, UPDATE, DELETE) that changes the heap
\* of its table holds the write lock on the table under its lock id when it
\* does so, and inside a transaction it appends one operation per affected
\* row to the transaction's log; a DELETE issued while a different
\* transaction holds the write lock leaves the table as it was.
C17_MutationsLockAndLog ==
    [][\A s \in Sessions, t \in DOMAIN tables :
         (MutatesTable(s, t) /\ TableRows(Pager, t)' # TableRows(Pager, t))
         => /\ t \in DOMAIN tableLocks
            /\ tableLocks[t].writer = getCurrentTxID(s)
            /\ getCurrentTxID(s) \in tableLocks[t].readers
            /\ currentTx[s] # NilTx
                 => Len(txs'[currentTx[s]].Operations)
                      = Len(txs[currentTx[s]].Operations) + AffectedRows(t)]_vars

\* the pages a step wrote or created
WrittenPages ==
    {p \in DOMAIN pageCache' : p \notin DOMAIN pageCache \/ pageCache'[p] # pageCache[p]}

\* a mutating statement of session s returns success in this step
MutationReturns(s) ==
    \/ \E t \in Tables, k \in Vals : executeDelete(s, t, k)
    \/ /\ pc[s] = "locked" /\ pc'[s] = "idle"
       /\ \/ \E v \in Vals : executeInsert(s, v)
          \/ \E k \in Vals, v \in Vals : executeUpdate(s, k, v)

\* no other session is in the middle of an auto-commit statement, which
\* would hold its locks under the same lock id 0
AloneInAutoCommit(s) ==
    \A o \in Sessions \ {s} : pc[o] = "idle" \/ currentTx[o] # NilTx

\* C18: when a mutating statement issued outside BEGIN ... COMMIT returns
\* success, the statement holds no lock on any table any more (lock id 0
\* holds none, no other auto-commit statement being under way) and every
\* page the statement wrote is on disk and synced.
C18_AutoCommitDurable ==
    [][\A s \in Sessions :
         (currentTx[s] = NilTx /\ MutationReturns(s))
         => /\ AloneInAutoCommit(s)
                 => \A t \in DOMAIN tableLocks' : 0 \notin tableLocks'[t].readers
            /\ \A p \in WrittenPages :
                 /\ p \in DOMAIN file' /\ file'[p] = pageCache'[p]
                 /\ p \notin unsynced']_vars

\* C20: CREATE TABLE with a name the catalog already holds fails with an
\* already-exists error and changes neither the catalog nor the pager: no
\* page is allocated.
C20_DuplicateCreateTable ==
    [][\A t \in DOMAIN tables :
         executeCreateTable(t)
         => /\ ret' = ExecError("table already exists")
            /\ UNCHANGED <<tables, numPages, pageCache, file>>]_vars

\* C19: BEGIN while the session has a current transaction fails and starts no
\* transaction; COMMIT and ROLLBACK without a current transaction fail; a
\* failing command leaves the active transactions, the locks and the heap as
\* they were; a COMMIT or ROLLBACK that succeeds leaves the session in
\* auto-commit mode (lock id 0), and a BEGIN that succeeds leaves it in an
\* active transaction.
C19_TransactionCommands ==
    [][\A s \in Sessions :
         /\ (currentTx[s] # NilTx /\ executeBegin(s))
              => /\ ret' = ExecError("transaction already in progress")
                 /\ UNCHANGED <<activeTxs, txs, nextTxID, currentTx,
                                tableLocks, pageCache, file, numPages>>
         /\ (currentTx[s] = NilTx /\ (executeCommit(s) \/ executeRollback(s)))
              => /\ ret' = ExecError("no active transaction")
                 /\ UNCHANGED <<activeTxs, txs, nextTxID, currentTx,
                                tableLocks, pageCache, file, numPages>>
         /\ (currentTx[s] # NilTx /\ ret' = NoRet
               /\ (executeCommit(s) \/ executeRollback(s)))
              => /\ currentTx'[s] = NilTx
                 /\ getCurrentTxID(s)' = 0
                 /\ currentTx[s] \notin activeTxs'
         /\ (currentTx[s] = NilTx /\ executeBegin(s))
              => /\ currentTx'[s] \in activeTxs' \ activeTxs
                 /\ getCurrentTxID(s)' = currentTx'[s]]_vars

\* BEGIN has just failed in a session whose transaction holds a lock on a
\* table with a row in it
C19_Witness ==
    /\ ret = ExecError("transaction already in progress")
    /\ \E s \in Sessions, t \in DOMAIN tables :
         /\ currentTx[s] \in activeTxs
         /\ Holds(tableLocks, t, currentTx[s])
         /\ TableRows(Pager, t) # <<>>

(***************************************************************************)
(* Further claims on the lock manager.                                     *)
(***************************************************************************)

\* an iteration of AcquireWriteLock(t, txID) runs in this step: the first
\* one, or a later one of a call that is in its loop
WriteAttempt(t, txID) ==
    \/ AcquireWriteLock(t, txID)
    \/ /\ Waiting(txID) /\ wait[txID].table = t /\ wait[txID].mode = "write"
       /\ Poll(txID)

\* C21: an iteration of AcquireWriteLock(t, tx) grants the lock if and only
\* if writer(t) is 0 or tx and no transaction other than tx is in readers(t);
\* on grant writer(t) becomes tx and tx is added to readers(t), nothing else
\* changes; without a grant the lock is as before.  A transaction that alone
\* holds the read lock is therefore granted the write lock.
C21_WriteLockGrant ==
    [][\A t \in TableNames, txID \in TxIds :
         WriteAttempt(t, txID) =>
           LET readers == IF t \in DOMAIN tableLocks THEN tableLocks[t].readers ELSE {}
               writer == IF t \in DOMAIN tableLocks THEN tableLocks[t].writer ELSE 0
               free == writer \in {0, txID} /\ readers \subseteq {txID}
           IN /\ free <=> wait'[txID].st \in {"idle", "granted"}
              /\ free => /\ tableLocks'[t].writer = txID
                         /\ tableLocks'[t].readers = readers \cup {txID}
              /\ ~free => /\ tableLocks'[t].writer = writer
                          /\ tableLocks'[t].readers = readers
              /\ \A o \in DOMAIN tableLocks \ {t} : tableLocks'[o] = tableLocks[o]]_vars

\* C21 witness: a transaction is the writer of a table after its request
\* waited, while another transaction's write request on that table is in its
\* loop.
C21_Witness ==
    \E t \in DOMAIN tableLocks, txID \in TxIds \ {0}, o \in TxIds \ {0} :
        /\ o # txID
        /\ tableLocks[t].writer = txID /\ tableLocks[t].readers = {txID}
        /\ wait[txID].st = "granted" /\ wait[txID].table = t /\ wait[txID].elapsed > 0
        /\ Waiting(o) /\ wait[o].table = t /\ wait[o].mode = "write"

(***************************************************************************)
(* SpecTwoPhase: the transaction manager and its lock manager called by    *)
(* transactions: Begin, read and write lock requests on two tables by      *)
(* active transactions, Commit and Rollback.  A transaction that is inside *)
(* a lock request calls nothing else until the request returns.            *)
(***************************************************************************)
TMBegin ==
    LET txID == NewTxID(nextTxID) IN
    /\ nextTxID <= MaxTx
    /\ nextTxID' = nextTxID + 1
    /\ activeTxs' = activeTxs \cup {txID}
    /\ txs' = Put(txs, txID, NewTransaction)
    /\ ret' = [op |-> "Begin", txID |-> txID]
    /\ UNCHANGED <<unitVars, lockVars, execVars, pagerVars, catVars, indexes, snap>>

TxAcquireReadLock(t, txID) == txID \in activeTxs /\ AcquireReadLock(t, txID)

TxAcquireWriteLock(t, txID) == txID \in activeTxs /\ AcquireWriteLock(t, txID)

TxPoll(txID) == txID \in activeTxs /\ Poll(txID)

TxCommit(txID) ==
    LET r == TMCommit(txID) IN
    /\ txID \in activeTxs /\ ~Waiting(txID)
    /\ activeTxs' = r.activeTxs /\ txs' = r.txs
    /\ tableLocks' = r.locks
    /\ SetPager(r.P)
    /\ ret' = [op |-> "Commit", txID |-> txID]
    /\ UNCHANGED <<unitVars, wait, nextTxID, execVars, catVars, indexes, snap>>

TxRollback(txID) ==
    LET r == TMRollback(txID) IN
    /\ txID \in activeTxs /\ ~Waiting(txID)
    /\ activeTxs' = r.activeTxs /\ txs' = r.txs
    /\ tableLocks' = r.locks
    /\ SetPager(r.P)
    /\ ret' = [op |-> "Rollback", txID |-> txID]
    /\ UNCHANGED <<unitVars, wait, nextTxID, execVars, catVars, indexes, snap>>

NextTwoPhase ==
    \/ TMBegin
    \/ \E t \in TableNames, txID \in 1 .. MaxTx : TxAcquireReadLock(t, txID)
    \/ \E t \in TableNames, txID \in 1 .. MaxTx : TxAcquireWriteLock(t, txID)
    \/ \E txID \in 1 .. MaxTx : TxPoll(txID)
    \/ Tick
    \/ \E txID \in 1 .. MaxTx : TxCommit(txID)
    \/ \E txID \in 1 .. MaxTx : TxRollback(txID)

SpecTwoPhase == Init /\ [][NextTwoPhase]_vars

\* C22: (a) a lock a transaction holds stays held, in the same mode, for as
\* long as the transaction is active; (b) once Commit or Rollback of a
\* transaction has returned, the transaction is in no table's readers and
\* is no table's writer; (c) that release changes no other transaction's
\* readers entry and no other transaction's writer entry.
C22_StrictTwoPhase ==
    [][\A txID \in DOMAIN txs :
         /\ txID \in activeTxs'
              => \A t \in DOMAIN tableLocks :
                   /\ txID \in tableLocks[t].readers => txID \in tableLocks'[t].readers
                   /\ tableLocks[t].writer = txID => tableLocks'[t].writer = txID
         /\ (txID \in activeTxs /\ txID \notin activeTxs')
              => /\ ret'.op \in {"Commit", "Rollback"} /\ ret'.txID = txID
                 /\ DOMAIN tableLocks' = DOMAIN tableLocks
                 /\ \A t \in DOMAIN tableLocks :
                      /\ txID \notin tableLocks'[t].readers
                      /\ tableLocks'[t].writer # txID
                      /\ tableLocks'[t].readers \ {txID} = tableLocks[t].readers \ {txID}
                      /\ tableLocks[t].writer # txID
                           => tableLocks'[t].writer = tableLocks[t].writer]_vars

\* C22 witness: a transaction has finished while the other one, still
\* active, holds the read lock on one table and the write lock on another.
C22_Witness ==
    \E txID \in DOMAIN txs, o \in activeTxs, t \in DOMAIN tableLocks,
       u \in DOMAIN tableLocks :
        /\ txID \notin activeTxs /\ ret.op \in {"Commit", "Rollback"}
        /\ t # u
        /\ o \in tableLocks[t].readers /\ tableLocks[t].writer = 0
        /\ tableLocks[u].writer = o

(***************************************************************************)
(* SpecUndo: the transaction manager called directly, with Rollback taken  *)
(* one loop iteration at a time so that other callers run in between.      *)
(* Operations are appended to a log as a caller of AddOperation may: with  *)
(* RowIDs of slots that exist or not, and with a table the catalog does    *)
(* not hold.  One Rollback runs at a time.                                 *)
(***************************************************************************)
UndoTable == "t1"

UndoOps ==
    {Operation("OpInsert", UndoTable, RowID(0, 0), ZeroRowID, ZeroRowID),
     Operation("OpInsert", UndoTable, RowID(0, 1), ZeroRowID, ZeroRowID),
     Operation("OpDelete", UndoTable, RowID(0, 0), ZeroRowID, ZeroRowID),
     Operation("OpUpdate", UndoTable, ZeroRowID, RowID(0, 0), RowID(0, 1)),
     Operation("OpInsert", "t9", RowID(0, 0), ZeroRowID, ZeroRowID)}

UNewTableStorage ==
    /\ UndoTable \notin DOMAIN tables
    /\ numPages < MaxPages
    /\ SetPager(AllocatePage(Pager))
    /\ tables' = tables @@ (UndoTable :> [FirstPageID |-> numPages])
    /\ ret' = NoRet
    /\ UNCHANGED <<unitVars, lockVars, tmVars, execVars, catIndexes, meta, indexes,
                   snap>>

UInsertRow ==
    /\ UndoTable \in DOMAIN tables
    /\ LET P1 == InsertRow(Pager, tables[UndoTable].FirstPageID,
                           [Deleted |-> FALSE, val |-> 1])
       IN WithinBounds(P1) /\ SetPager(P1)
    /\ ret' = [op |-> "InsertRow"]
    /\ UNCHANGED <<unitVars, lockVars, tmVars, execVars, catVars, indexes, snap>>

\* Transaction.AddOperation
AddOperation(txID, op) ==
    /\ txID \in activeTxs
    /\ Len(txs[txID].Operations) < MaxOps
    /\ txs' = [txs EXCEPT ![txID].Operations = Append(@, op)]
    /\ ret' = [op |-> "AddOperation"]
    /\ UNCHANGED <<unitVars, lockVars, nextTxID, activeTxs, execVars, pagerVars,
                   catVars, indexes, snap>>

\* i := len(operations) - 1, counted from 1 here
FirstIndex(operations) == Len(operations)

AfterStepMutA(i, err) == IF err THEN 0 ELSE i - 1

\* i--: the error of rollbackOperation is printed, the loop goes on
AfterStep(i, err) == i - 1

\* Rollback up to its loop
RollbackStart(txID) ==
    /\ txID \in activeTxs /\ ~Waiting(txID)
    /\ undo = NoUndo
    /\ activeTxs' = activeTxs \ {txID}
    /\ txs' = [txs EXCEPT ![txID] = Finished("Aborted")]
    /\ undo' = [txID |-> txID, operations |-> txs[txID].Operations,
                i |-> FirstIndex(txs[txID].Operations), done |-> <<>>]
    /\ ret' = [op |-> "RollbackStart"]
    /\ UNCHANGED <<thePage, value, insert, lockVars, nextTxID, execVars, pagerVars, catVars,
                   indexes, snap>>

\* one iteration of the loop
RollbackStep ==
    LET op == undo.operations[undo.i]
        r == rollbackOperation(Pager, op)
    IN /\ undo.txID # NilTx /\ undo.i > 0
       /\ SetPager(r.P)
       /\ undo' = [undo EXCEPT !.i = AfterStep(undo.i, r.err),
                               !.done = Append(@, op)]
       /\ ret' = [op |-> "rollbackOperation", err |-> r.err]
       /\ UNCHANGED <<thePage, value, insert, lockVars, tmVars, execVars, catVars, indexes, snap>>

\* Rollback after its loop: ReleaseLocks, FlushAll
RollbackFinish ==
    /\ undo.txID # NilTx /\ undo.i <= 0
    /\ tableLocks' = ReleaseLocks(tableLocks, undo.txID)
    /\ SetPager(FlushAll(Pager))
    /\ undo' = NoUndo
    /\ ret' = [op |-> "Rollback", txID |-> undo.txID]
    /\ UNCHANGED <<thePage, value, insert, wait, tmVars, execVars, catVars, indexes, snap>>

NextUndo ==
    \/ UNewTableStorage
    \/ UInsertRow
    \/ TMBegin
    \/ \E txID \in 1 .. MaxTx, op \in UndoOps : AddOperation(txID, op)
    \/ \E txID \in 1 .. MaxTx : TxAcquireWriteLock(UndoTable, txID)
    \/ \E txID \in 1 .. MaxTx : TxPoll(txID)
    \/ \E txID \in 1 .. MaxTx : RollbackStart(txID)
    \/ RollbackStep
    \/ RollbackFinish

SpecUndo == Init /\ [][NextUndo]_vars

Reverse(seq) == [i \in 1 .. Len(seq) |-> seq[Len(seq) + 1 - i]]

\* C23: when Rollback(tx) leaves its loop, the operations it has undone are
\* the logged operations of tx, each once, last appended first, whether or
\* not a step failed; while the loop runs tx's locks are held as before and
\* the file is not synced; the step after the loop releases tx's locks and
\* leaves every cached page written and synced.
C23_RollbackOrder ==
    /\ [][(undo.txID # NilTx /\ undo' = NoUndo)
            => /\ undo.done = Reverse(undo.operations)
               /\ \A t \in DOMAIN tableLocks' :
                    /\ undo.txID \notin tableLocks'[t].readers
                    /\ tableLocks'[t].writer # undo.txID
               /\ unsynced' = {}
               /\ file' = pageCache']_vars
    /\ [][(undo'.txID # NilTx)
            => /\ unsynced \subseteq unsynced'
               /\ \A t \in DOMAIN tableLocks :
                    /\ undo'.txID \in tableLocks[t].readers
                         => undo'.txID \in tableLocks'[t].readers
                    /\ tableLocks[t].writer = undo'.txID
                         => tableLocks'[t].writer = undo'.txID]_vars

\* C23 witness: the loop of a Rollback has ended after two steps of which
\* the first one failed (its table is not in the catalog) and the second one
\* did not, the transaction is still the writer of the table and a page is
\* written but not synced.
C23_Witness ==
    /\ undo.txID # NilTx /\ undo.i = 0
    /\ Len(undo.done) = 2
    /\ undo.done[1].TableName \notin DOMAIN tables
    /\ ret = [op |-> "rollbackOperation", err |-> FALSE]
    /\ UndoTable \in DOMAIN tableLocks
    /\ tableLocks[UndoTable].writer = undo.txID
    /\ unsynced # {}

(***************************************************************************)
(* Claims on the RowIDs the executor records.                              *)
(***************************************************************************)

\* the slot InsertRow has just written: the last one in chain order
LastRowID(rows) == rows[Len(rows)].ID

\* C24: when INSERT has stored a row, the RowID of the Insert operation it
\* appends to the transaction's log and the RowID of the entry it adds to
\* every index of the table are the (page, slot) the row was written to.
C24_InsertRowID ==
    [][\A v \in Vals, t \in Tables :
         (/\ pc["s1"] = "locked" /\ stmt["s1"].kind = "insert"
          /\ stmt["s1"].table = t /\ executeInsert("s1", v))
         => LET slot == LastRowID(TableRows(Pager, t)')
                txID == currentTx["s1"]
            IN /\ txID # NilTx =>
                    LET operations == txs'[txID].Operations
                    IN /\ Len(operations) = Len(txs[txID].Operations) + 1
                       /\ operations[Len(operations)].Type = "OpInsert"
                       /\ operations[Len(operations)].RowID = slot
               /\ \A n \in DOMAIN indexes :
                    indexes[n].TableName = t
                      => /\ IndexEntry(v, slot) \in indexes'[n].tree
                         /\ indexes'[n].tree \ indexes[n].tree \subseteq
                              {IndexEntry(v, slot)}]_vars

\* the index in a scan of the row stored at rowID (0 when there is none)
PlaceOf(rows, rowID) ==
    IF \E i \in 1 .. Len(rows) : rows[i].ID = rowID
    THEN CHOOSE i \in 1 .. Len(rows) : rows[i].ID = rowID
    ELSE 0

\* C25: ROLLBACK of a transaction whose log is one Update operation (its
\* new row version is then the last row of the table) leaves the new version
\* tombstoned and the old version live, and changes the tombstone flag of no
\* other row.
C25_UpdateRollback ==
    [][\A s \in Sessions, t \in DOMAIN tables :
         (/\ currentTx[s] # NilTx
          /\ Len(txs[currentTx[s]].Operations) = 1
          /\ txs[currentTx[s]].Operations[1].Type = "OpUpdate"
          /\ txs[currentTx[s]].Operations[1].TableName = t
          /\ executeRollback(s))
         => LET before == TableRows(Pager, t)
                after == TableRows(Pager, t)'
                old == PlaceOf(before, txs[currentTx[s]].Operations[1].OldID)
                new == Len(before)
            IN /\ Len(after) = Len(before)
               /\ old # 0 /\ old # new
               /\ ~after[old].Deleted
               /\ after[new].Deleted
               /\ \A i \in 1 .. Len(before) \ {old, new} :
                    after[i].Deleted = before[i].Deleted]_vars

(***************************************************************************)
(* SpecUpdate: UPDATE statements of one session in auto-commit mode on a   *)
(* table of up to HeapMaxRows records over several pages, filled and       *)
(* tombstoned through the table heap.  With one session the lock is always *)
(* granted at once, so the statement is one step.                          *)
(***************************************************************************)
UpdTable == "t1"

AutoUpdate(t, k, v) ==
    LET locks == EnsureLock(tableLocks, t)
        W == updateRows([P |-> Pager, ixs |-> indexes, ops |-> <<>>],
                        GetAllRowsWithDeleted(Pager, tables[t].FirstPageID, TRUE),
                        1, t, k, v)
    IN /\ t \in DOMAIN tables
       /\ CanWrite(locks[t], 0)
       /\ HeapWithinBounds(W.P)
       /\ SetPager(FlushAll(W.P))
       /\ indexes' = W.ixs
       /\ tableLocks' = ReleaseLocks([locks EXCEPT ![t] = GrantWrite(@, 0)], 0)
       \* updateCount: one operation is built per updated row
       /\ ret' = [op |-> "update", count |-> Len(W.ops)]
       /\ UNCHANGED <<unitVars, wait, tmVars, execVars, catVars, snap>>

NextUpdate ==
    \/ HNewTableStorage(UpdTable)
    \/ \E v \in Vals : HInsertRow(UpdTable, v)
    \/ \E rowID \in HeapRowIDs : HMarkRowDeleted(UpdTable, rowID)
    \/ \E k \in Vals, v \in Vals : AutoUpdate(UpdTable, k, v)

SpecUpdate == Init /\ [][NextUpdate]_vars

LiveCount(rows) == Cardinality({i \in 1 .. Len(rows) : ~rows[i].Deleted})

\* C26: an UPDATE ... SET c = v WHERE c = k tombstones every live row with
\* value k and no other row, appends behind the rows of the table one live
\* row with value v per row it tombstoned, each at a RowID no row had, and
\* leaves these new rows live also when they match WHERE; the number of
\* live rows is unchanged and the reported count is the number of rows that
\* matched.
C26_UpdateStatement ==
    [][\A k \in Vals, v \in Vals :
         AutoUpdate(UpdTable, k, v)
         => LET before == TableRows(Pager, UpdTable)
                after == TableRows(Pager, UpdTable)'
                matched == {i \in 1 .. Len(before) :
                              ~before[i].Deleted /\ before[i].val = k}
            IN /\ Len(after) = Len(before) + Cardinality(matched)
               /\ \A i \in 1 .. Len(before) :
                    /\ after[i].ID = before[i].ID
                    /\ after[i].val = before[i].val
                    /\ after[i].Deleted = (before[i].Deleted \/ i \in matched)
               /\ \A j \in Len(before) + 1 .. Len(after) :
                    /\ ~after[j].Deleted
                    /\ after[j].val = v
                    /\ \A i \in 1 .. Len(before) : after[j].ID # before[i].ID
               /\ LiveCount(after) = LiveCount(before)
               /\ ret'.count = Cardinality(matched)]_vars

\* C26 witness: an UPDATE has just replaced two rows by rows that match its
\* own WHERE (SET c = 1 WHERE c = 1), on a table that now spans two pages.
C26_Witness ==
    /\ ret = [op |-> "update", count |-> 2]
    /\ UpdTable \in DOMAIN tables
    /\ Len(TableRows(Pager, UpdTable)) = 4
    /\ pageCache[tables[UpdTable].FirstPageID].NextPage # 0
    /\ LiveCount(TableRows(Pager, UpdTable)) = 2
    /\ \A i \in 1 .. 4 : TableRows(Pager, UpdTable)[i].val = 1

(***************************************************************************)
(* Liveness of the lock manager.  The polling loop of a request keeps      *)
(* running (it sleeps 10 ms between two tries) and time keeps passing.     *)
(***************************************************************************)
SpecLockFair ==
    /\ SpecLock
    /\ WF_vars(Tick)
    /\ \A txID \in TxIds : WF_vars(Poll(txID))

\* a and b both hold the read lock on t and both are inside a write request
\* for t
UpgradeDeadlock(a, b, t) ==
    /\ a # b
    /\ t \in DOMAIN tableLocks
    /\ {a, b} \subseteq tableLocks[t].readers
    /\ Waiting(a) /\ wait[a].table = t /\ wait[a].mode = "write"
    /\ Waiting(b) /\ wait[b].table = t /\ wait[b].mode = "write"

C28_PageStructure ==
    /\ Walk(thePage.Data, 0, thePage.RowCount) \in 0 .. Len(thePage.Data)
    /\ PageGetAllRows(thePage).err = ""
    /\ Len(PageGetAllRows(thePage).rows) = thePage.RowCount
    /\ ret.op = "GetAllRows"
         => ret.err = "" /\ Len(ret.rows) = thePage.RowCount

(***************************************************************************)
(* SpecRestart: the statements of SpecIndex, and the process ending and    *)
(* starting again (main.go).  The new process loads tables and catIndexes  *)
(* from the catalog file; the lock manager, the transaction manager, the executor and the   *)
(* index manager are new; the new pager reads its pages from the file.     *)
(***************************************************************************)
\* Pager.Close: every cached page is written to the file, without Sync
Close(P) ==
    [P EXCEPT !.file = [x \in DOMAIN P.file \cup DOMAIN P.pageCache |->
                          IF x \in DOMAIN P.pageCache THEN P.pageCache[x] ELSE P.file[x]],
              !.unsynced = @ \cup DOMAIN P.pageCache]

\* NewPager on the file the last process left: GetPage reads a page from
\* the file the first time it is asked for
NewPager(P) ==
    [P EXCEPT !.numPages = Cardinality(DOMAIN P.file), !.pageCache = P.file]

\* tombstoned rows get an entry too
rebuildIndexesMutA(cat, tabs, P) ==
    [n \in DOMAIN cat |->
       [NewIndex(cat[n]) EXCEPT !.tree =
          buildIndex({}, GetAllRowsWithDeleted(P, tabs[cat[n]].FirstPageID, TRUE), 1)]]

\* rebuildIndexes: for every index of the catalog, CreateIndex in the new
\* index manager and Insert(row.Values[colIndex], row.ID) for every row of
\* GetAllRows
rebuildIndexes(cat, tabs, P) ==
    [n \in DOMAIN cat |->
       [NewIndex(cat[n]) EXCEPT !.tree =
          buildIndex({}, GetAllRows(P, tabs[cat[n]].FirstPageID), 1)]]

\* the process ends, by leaving main (clean: the deferred pager.Close runs)
\* or by being killed, and is started again
Restart(clean) ==
    LET P0 == IF clean THEN Close(Pager) ELSE Pager
        P1 == NewPager(P0)
    IN /\ clean => \A s \in Sessions : pc[s] = "idle"
       /\ numPages' = P1.numPages
       /\ pageCache' = P1.pageCache
       /\ file' = P1.file
       /\ unsynced' = P1.unsynced
       /\ tables' = meta.tables
       /\ catIndexes' = meta.indexes
       /\ indexes' = rebuildIndexes(meta.indexes, meta.tables, P1)
       /\ tableLocks' = EmptyFn
       /\ wait' = [tx \in TxIds |-> NoWait]
       /\ nextTxID' = 1
       /\ activeTxs' = {}
       /\ txs' = EmptyFn
       /\ currentTx' = [s \in Sessions |-> NilTx]
       /\ pc' = [s \in Sessions |-> "idle"]
       /\ stmt' = [s \in Sessions |-> NoStmt]
       /\ snap' = [s \in Sessions |-> NoSnap]
       /\ ret' = [op |-> "restart", clean |-> clean]
       /\ UNCHANGED <<unitVars, meta>>

NextRestart ==
    \/ NextIndex
    \/ \E clean \in BOOLEAN : Restart(clean)

SpecRestart == Init /\ [][NextRestart]_vars

\* the entries an index of table t holds when it indexes the live rows
LiveEntries(P, tabs, t) ==
    {IndexEntry(r.val, r.ID) : r \in Range(GetAllRows(P, tabs[t].FirstPageID))}

\* two results of a scan hold the same rows, whatever their order
SameResult(a, b) == a.err = b.err /\ SameRows(a.vals, b.vals)

\* C29: when the process has started again and no statement has returned
\* yet, every index named in the catalog is registered in the index manager
\* and no other, each holds exactly the entries (value, RowID) of the rows
\* GetAllRows returns for its table, and a lookup by the index, for every
\* operator and key, returns the rows the full scan returns.
C29_RebuildOnStartup ==
    ret.op = "restart"
      => /\ DOMAIN indexes = DOMAIN catIndexes
         /\ \A n \in DOMAIN catIndexes :
              /\ indexes[n].TableName = catIndexes[n]
              /\ indexes[n].tree = LiveEntries(Pager, tables, catIndexes[n])
              /\ \A o \in Operators, k \in Vals :
                   SameResult(IndexScan(Pager, n, o, k),
                              FullScan(Pager, catIndexes[n], o, k))

\* the process has started again with an index in the catalog whose table
\* holds a live row that is not the first record and a tombstoned row
C29_Witness ==
    /\ ret.op = "restart"
    /\ "ix" \in DOMAIN indexes
    /\ \E e \in indexes["ix"].tree : e.RowID # ZeroRowID
    /\ \E r \in Range(GetAllRowsWithDeleted(Pager, tables["t1"].FirstPageID, TRUE)) :
         r.Deleted

(***************************************************************************)
(* SpecInsert: TableStorage.InsertRow followed through its loop, one page  *)
(* of the chain per step, over pages that keep their records in bytes:     *)
(* [RowCount, Data, NextPage].  The loop is followed until the pager has   *)
(* HeapMaxPages pages.                                                     *)
(***************************************************************************)
\* the lengths of the serialized rows: two of the first fit one page, the
\* second fits an empty page only, the third is longer than a page body
RowLens == {2, 6, BodySize - LenPrefix + 1}

RowDatas == {[i \in 1 .. n |-> 1] : n \in RowLens}

\* NewPage(id, PageTypeTable)
NewTablePage == [RowCount |-> 0, Data |-> NewPageData.Data, NextPage |-> 0]

\* the id of the last page is given out again
AllocateTablePageMutA(P) ==
    LET pageID == IF P.numPages = 0 THEN 0 ELSE P.numPages - 1
        P1 == writePageToDisk(P, pageID, NewTablePage)
    IN [P1 EXCEPT !.pageCache = Put(@, pageID, NewTablePage), !.numPages = @ + 1]

\* Pager.AllocatePage for a page of bytes
AllocateTablePage(P) ==
    LET pageID == P.numPages
        P1 == writePageToDisk(P, pageID, NewTablePage)
    IN [P1 EXCEPT !.pageCache = Put(@, pageID, NewTablePage), !.numPages = @ + 1]

\* NewTableStorage: the first page of the table is allocated
INewTableStorage(t) ==
    /\ ~insert.running
    /\ t \notin DOMAIN tables
    /\ numPages < HeapMaxPages
    /\ SetPager(AllocateTablePage(Pager))
    /\ tables' = tables @@ (t :> [FirstPageID |-> numPages])
    /\ ret' = NoRet
    /\ UNCHANGED <<unitVars, lockVars, tmVars, execVars, catIndexes, meta, indexes,
                   snap>>

\* InsertRow up to its loop: currentPageID := t.firstPageID
InsertRowStart(t, rowData) ==
    /\ ~insert.running
    /\ t \in DOMAIN tables
    /\ insert' = [running |-> TRUE, rowData |-> rowData,
                  currentPageID |-> tables[t].FirstPageID,
                  visited |-> <<>>, allocated |-> 0]
    /\ ret' = [op |-> "InsertRowStart"]
    /\ UNCHANGED <<thePage, value, undo, lockVars, tmVars, execVars, pagerVars,
                   catVars, indexes, snap>>

\* one pass of the loop of InsertRow: WriteRow on the current page; the
\* call returns when it succeeds, and goes on to the next page, which it
\* allocates when there is none, when it fails
InsertRowStep ==
    LET id == insert.currentPageID
        page == pageCache[id]
        r == PageWriteRow([RowCount |-> page.RowCount, Data |-> page.Data],
                          insert.rowData)
        seen == Append(insert.visited, id)
    IN /\ insert.running
       /\ IF r.err = ""
          THEN /\ SetPager(FlushPage(
                     [Pager EXCEPT !.pageCache[id] =
                        [RowCount |-> r.page.RowCount, Data |-> r.page.Data,
                         NextPage |-> page.NextPage]], id))
               /\ insert' = [insert EXCEPT !.running = FALSE, !.visited = seen]
               /\ ret' = [op |-> "InsertRow", err |-> ""]
          ELSE IF page.NextPage = 0
          THEN /\ numPages < HeapMaxPages
               /\ LET P1 == AllocateTablePage(Pager) IN
                  SetPager(FlushPage([P1 EXCEPT !.pageCache[id].NextPage = numPages],
                                     id))
               /\ insert' = [insert EXCEPT !.currentPageID = numPages,
                                           !.visited = seen,
                                           !.allocated = @ + 1]
               /\ ret' = [op |-> "AllocatePage"]
          ELSE /\ insert' = [insert EXCEPT !.currentPageID = page.NextPage,
                                           !.visited = seen]
               /\ ret' = [op |-> "NextPage"]
               /\ UNCHANGED pagerVars
       /\ UNCHANGED <<thePage, value, undo, lockVars, tmVars, execVars, catVars,
                      indexes, snap>>

NextInsert ==
    \/ \E t \in TableNames : INewTableStorage(t)
    \/ \E t \in TableNames, rowData \in RowDatas : InsertRowStart(t, rowData)
    \/ InsertRowStep

SpecInsert == Init /\ [][NextInsert]_vars

\* WriteRow of the call's row succeeds on the page the call is at
FitsHere ==
    LET page == pageCache[insert.currentPageID] IN
    PageWriteRow([RowCount |-> page.RowCount, Data |-> page.Data],
                 insert.rowData).err = ""

\* C30: a call of InsertRow visits no page of the chain twice, allocates at
\* most one new page, and the row is written in the page it allocated, so
\* that the call returns; this for every row, one longer than an empty page
\* body included.
C30_InsertRowTerminates ==
    /\ \A i \in 1 .. Len(insert.visited), j \in 1 .. Len(insert.visited) :
         i # j => insert.visited[i] # insert.visited[j]
    /\ insert.allocated <= 1
    /\ insert.running /\ insert.allocated = 1 => FitsHere

(***************************************************************************)
(* SpecFail: one session whose INSERT may carry a tuple with the wrong     *)
(* number of values.                                                       *)
(***************************************************************************)
\* INSERT INTO t VALUES (v, w) on the one-column table, from the lock on:
\* the check of len(valTuple) returns the error; nothing is released
executeInsertMismatch(s) ==
    /\ pc[s] = "locked" /\ stmt[s].kind = "insert"
    /\ pc' = [pc EXCEPT ![s] = "idle"]
    /\ stmt' = [stmt EXCEPT ![s] = NoStmt]
    /\ ret' = ExecError("column count mismatch")
    /\ UNCHANGED <<unitVars, lockVars, tmVars, currentTx, pagerVars, catVars,
                   indexes, snap>>

NextFail ==
    \/ \E t \in Tables : executeCreateTable(t)
    \/ executeBegin("s1")
    \/ executeCommit("s1")
    \/ executeRollback("s1")
    \/ \E t \in Tables : InsertAcquire("s1", t)
    \/ \E v \in Vals : executeInsert("s1", v)
    \/ executeInsertMismatch("s1")
    \/ \E t \in Tables : UpdateAcquire("s1", t)
    \/ \E k \in Vals, v \in Vals : executeUpdate("s1", k, v)
    \/ \E t \in Tables, k \in Vals : executeDelete("s1", t, k)
    \/ \E t \in Tables : executeSelect("s1", t, "*", 0)

SpecFail == Init /\ [][NextFail]_vars

\* C31: when no statement is running, transaction id 0 is in no table's
\* readers set, also after an auto-commit statement that failed once it had
\* its lock, and the session's explicit transaction can take the write lock
\* of every table.
C31_FailedStatementReleases ==
    (\A s \in Sessions : pc[s] = "idle")
       => \A t \in DOMAIN tableLocks :
             /\ 0 \notin tableLocks[t].readers
             /\ currentTx["s1"] # NilTx => CanWrite(tableLocks[t], currentTx["s1"])

(***************************************************************************)
(* SpecIO: one session over a file whose writes can fail: FlushAll returns *)
(* an error after it has written some of the cached pages (a WriteAt       *)
(* fails) or all of them (the Sync fails).                                 *)
(***************************************************************************)
\* Pager.FlushAll returning an error: the pages of written reached the file
FlushAllFails(P, written) ==
    [P EXCEPT !.file = [x \in DOMAIN P.file \cup written |->
                          IF x \in written THEN P.pageCache[x] ELSE P.file[x]],
              !.unsynced = @ \cup written]

\* COMMIT whose FlushAll fails: Commit has taken the transaction out of
\* activeTxs and released its locks when it returns the error, and
\* executeCommit returns the error before it clears currentTx
executeCommitFlushFails(s, written) ==
    /\ pc[s] = "idle"
    /\ InTransaction(s)
    /\ Exists(activeTxs, currentTx[s])
    /\ written \subseteq DOMAIN pageCache
    /\ activeTxs' = activeTxs \ {currentTx[s]}
    /\ txs' = [txs EXCEPT ![currentTx[s]] = Finished("Committed")]
    /\ tableLocks' = ReleaseLocks(tableLocks, currentTx[s])
    /\ SetPager(FlushAllFails(Pager, written))
    /\ snap' = [snap EXCEPT ![s] = NoSnap]
    /\ ret' = ExecError("failed to flush pages")
    /\ UNCHANGED <<unitVars, wait, nextTxID, execVars, catVars, indexes>>

\* ROLLBACK whose FlushAll fails, after the undo loop
executeRollbackFlushFails(s, written) ==
    LET operations == txs[currentTx[s]].Operations
        P1 == rollbackAll(Pager, operations, Len(operations))
    IN /\ pc[s] = "idle"
       /\ InTransaction(s)
       /\ Exists(activeTxs, currentTx[s])
       /\ written \subseteq DOMAIN pageCache
       /\ activeTxs' = activeTxs \ {currentTx[s]}
       /\ txs' = [txs EXCEPT ![currentTx[s]] = Finished("Aborted")]
       /\ tableLocks' = ReleaseLocks(tableLocks, currentTx[s])
       /\ SetPager(FlushAllFails(P1, written))
       /\ snap' = SnapAfter(s, P1, NoSnap)
       /\ ret' = ExecError("failed to flush pages after rollback")
       /\ UNCHANGED <<unitVars, wait, nextTxID, execVars, catVars, indexes>>

NextIO ==
    \/ \E t \in Tables : executeCreateTable(t)
    \/ executeBegin("s1")
    \/ executeCommit("s1")
    \/ executeRollback("s1")
    \/ \E written \in SUBSET (0 .. MaxPages - 1) : executeCommitFlushFails("s1", written)
    \/ \E written \in SUBSET (0 .. MaxPages - 1) : executeRollbackFlushFails("s1", written)
    \/ \E t \in Tables : InsertAcquire("s1", t)
    \/ \E v \in Vals : executeInsert("s1", v)
    \/ \E t \in Tables, k \in Vals : executeDelete("s1", t, k)
    \/ \E t \in Tables : executeSelect("s1", t, "*", 0)

SpecIO == Init /\ [][NextIO]_vars

\* C32: whenever a session has a current transaction, that transaction is
\* in the active map of the transaction manager, also after a COMMIT or a
\* ROLLBACK whose FlushAll failed, so that the session's COMMIT and
\* ROLLBACK never both fail with "not found".
C32_CurrentTxActive ==
    \A s \in Sessions : InTransaction(s) => Exists(activeTxs, currentTx[s])

(***************************************************************************)
(* SpecCatalog: the DDL statements CREATE TABLE, DROP TABLE, CREATE INDEX  *)
(* and DROP INDEX with every error return of the catalog and of the index  *)
(* manager; the write of the catalog file succeeds (ok) or fails.  A       *)
(* catalog is [tables, indexes, meta], meta being the file.  Tables have   *)
(* the one column "c".                                                     *)
(***************************************************************************)
Catalog == [tables |-> tables, indexes |-> catIndexes, meta |-> meta]

\* the column names CREATE INDEX is given
ColumnNames == {"c", "x"}

\* TableSchema.GetColumnIndex
GetColumnIndex(columnName) == IF columnName = "c" THEN 0 ELSE -1

\* the end of a catalog mutation: return c.save()
saveCatalog(C, ok) ==
    IF ok THEN [err |-> "", C |-> [C EXCEPT !.meta = save(C.tables, C.indexes)]]
    ELSE [err |-> "failed to write catalog file", C |-> C]

\* Catalog.CreateTable: [err, C]
CatalogCreateTable(C, name, firstPageID, ok) ==
    IF name \in DOMAIN C.tables THEN [err |-> "table already exists", C |-> C]
    ELSE saveCatalog([C EXCEPT !.tables = Put(@, name, [FirstPageID |-> firstPageID])],
                     ok)

\* Catalog.DropTable: [err, C]
CatalogDropTable(C, name, ok) ==
    IF name \notin DOMAIN C.tables THEN [err |-> "table not found", C |-> C]
    ELSE saveCatalog([C EXCEPT !.tables = [x \in DOMAIN @ \ {name} |-> @[x]]], ok)

\* Catalog.CreateIndex: [err, C]
CatalogCreateIndex(C, name, tableName, columnName, ok) ==
    IF name \in DOMAIN C.indexes THEN [err |-> "index already exists", C |-> C]
    ELSE IF tableName \notin DOMAIN C.tables THEN [err |-> "table not found", C |-> C]
    ELSE IF GetColumnIndex(columnName) = -1 THEN [err |-> "column not found", C |-> C]
    ELSE saveCatalog([C EXCEPT !.indexes = Put(@, name, tableName)], ok)

\* Catalog.DropIndex: [err, C]
CatalogDropIndex(C, name, ok) ==
    IF name \notin DOMAIN C.indexes THEN [err |-> "index not found", C |-> C]
    ELSE saveCatalog([C EXCEPT !.indexes = [x \in DOMAIN @ \ {name} |-> @[x]]], ok)

SetCatalog(C) ==
    /\ tables' = C.tables
    /\ catIndexes' = C.indexes
    /\ meta' = C.meta

\* what a DDL statement returns
DDLReturns(err) == ret' = IF err = "" THEN [op |-> "ddl"] ELSE ExecError(err)

\* CREATE TABLE t (c INT): NewTableStorage, then Catalog.CreateTable
executeCreateTableSave(t, ok) ==
    LET r == CatalogCreateTable(Catalog, t, numPages, ok) IN
    /\ numPages < HeapMaxPages
    /\ SetPager(AllocatePage(Pager))
    /\ SetCatalog(r.C)
    /\ DDLReturns(r.err)
    /\ UNCHANGED <<unitVars, lockVars, tmVars, execVars, indexes, snap>>

\* DROP TABLE t: Catalog.DropTable and nothing else
executeDropTable(t, ok) ==
    LET r == CatalogDropTable(Catalog, t, ok) IN
    /\ SetCatalog(r.C)
    /\ DDLReturns(r.err)
    /\ UNCHANGED <<unitVars, lockVars, tmVars, execVars, pagerVars, indexes, snap>>

\* CREATE INDEX n ON t (columnName): Catalog.CreateIndex, then
\* IndexManager.CreateIndex, then the entries of the rows of GetAllRows
executeCreateIndexSave(n, t, columnName, ok) ==
    LET r == CatalogCreateIndex(Catalog, n, t, columnName, ok) IN
    /\ SetCatalog(r.C)
    /\ IF r.err # ""
       THEN DDLReturns(r.err) /\ UNCHANGED indexes
       ELSE IF n \in DOMAIN indexes
       THEN DDLReturns("index already exists") /\ UNCHANGED indexes
       ELSE /\ indexes' = Put(indexes, n,
                    [NewIndex(t) EXCEPT !.tree =
                       buildIndex({}, GetAllRows(Pager, tables[t].FirstPageID), 1)])
            /\ DDLReturns("")
    /\ UNCHANGED <<unitVars, lockVars, tmVars, execVars, pagerVars, snap>>

\* DROP INDEX n: IndexManager.DropIndex, then Catalog.DropIndex
executeDropIndexSave(n, ok) ==
    LET r == CatalogDropIndex(Catalog, n, ok) IN
    /\ IF n \notin DOMAIN indexes
       THEN /\ DDLReturns("index not found")
            /\ UNCHANGED <<indexes, catVars>>
       ELSE /\ indexes' = [x \in DOMAIN indexes \ {n} |-> indexes[x]]
            /\ SetCatalog(r.C)
            /\ DDLReturns(r.err)
    /\ UNCHANGED <<unitVars, lockVars, tmVars, execVars, pagerVars, snap>>

NextCatalog ==
    \/ \E t \in TableNames, ok \in BOOLEAN : executeCreateTableSave(t, ok)
    \/ \E t \in TableNames, ok \in BOOLEAN : executeDropTable(t, ok)
    \/ \E n \in IndexNames, t \in TableNames, columnName \in ColumnNames, ok \in BOOLEAN :
          executeCreateIndexSave(n, t, columnName, ok)
    \/ \E n \in IndexNames, ok \in BOOLEAN : executeDropIndexSave(n, ok)

SpecCatalog == Init /\ [][NextCatalog]_vars

\* C33: every index of the catalog names a table of the catalog, also
\* after DROP TABLE of a table that has an index, so that rebuildIndexes
\* finds the table of every index.
C33_IndexTableExists ==
    \A n \in DOMAIN catIndexes : catIndexes[n] \in DOMAIN tables

\* C34: after every CREATE INDEX and DROP INDEX, whether it succeeded or
\* failed at any step, the index names of the catalog are the index names
\* registered in the index manager.
C34_IndexNamesAgree ==
    DOMAIN catIndexes = DOMAIN indexes

\* C35: a DDL statement that returns an error leaves the catalog in memory
\* as it was before the statement, and the catalog in memory is always the
\* content of the catalog file as last written.
C35_CatalogAtomic ==
    /\ [][(ret' # ret /\ ret'.op = "exec") =>
             (tables' = tables /\ catIndexes' = catIndexes)]_vars
    /\ [](save(tables, catIndexes) = meta)

(***************************************************************************)
(* SpecRowUpdate: TableStorage.UpdateRow called directly with a new row of *)
(* one value or of two, on a table of one column.                          *)
(***************************************************************************)
\* the columns of the table
Columns == <<"c">>

\* the rows UpdateRow is given: Row.Values
RowValues == {<<v>> : v \in Vals} \cup {<<v, v>> : v \in Vals}

\* InsertRow from its check of len(row.Values) on: [err, P]
InsertRowChecked(P, firstPageID, values) ==
    IF Len(values) # Len(Columns) THEN [err |-> TRUE, P |-> P]
    ELSE [err |-> FALSE,
          P |-> InsertRow(P, firstPageID, [Deleted |-> FALSE, val |-> values[1]])]

\* TableStorage.UpdateRow with the error of InsertRow: [err, P]
UpdateRowChecked(P, firstPageID, rowID, values) ==
    LET m == MarkRowDeleted(P, rowID) IN
    IF m.err THEN m ELSE InsertRowChecked(m.P, firstPageID, values)

HUpdateRow(t, rowID, values) ==
    LET r == UpdateRowChecked(Pager, tables[t].FirstPageID, rowID, values) IN
    /\ t \in DOMAIN tables
    /\ HeapWithinBounds(r.P)
    /\ SetPager(r.P)
    /\ ret' = [op |-> "UpdateRow", rowID |-> rowID, err |-> r.err]
    /\ UNCHANGED <<unitVars, lockVars, tmVars, execVars, catVars, indexes, snap>>

NextRowUpdate ==
    \/ HNewTableStorage(UpdTable)
    \/ \E v \in Vals : HInsertRow(UpdTable, v)
    \/ \E rowID \in HeapRowIDs, values \in RowValues : HUpdateRow(UpdTable, rowID, values)

SpecRowUpdate == Init /\ [][NextRowUpdate]_vars

\* the row at rowID exists and is not tombstoned
IsLive(P, rowID) ==
    HasRow(P, rowID) /\ ~P.pageCache[rowID[1]].rows[rowID[2] + 1].Deleted

\* C36: when UpdateRow(rowID, newRow) returns an error, a row that was live
\* at rowID before the call is still live after it.
C36_FailedUpdateKeepsOld ==
    [][\A rowID \in HeapRowIDs, values \in RowValues :
         (HUpdateRow(UpdTable, rowID, values) /\ ret'.err /\ IsLive(Pager, rowID))
            => IsLive(Pager, rowID)']_vars

\* C37: a lock request that returns the timeout error has changed no table
\* lock: the iteration that returns it leaves every readers set and writer
\* as they are, the call entered its loop changing nothing but creating the
\* free lock of a table that had none, and the locks the requester held
\* when it called are held while it waits and when the call returns.
C37_TimeoutChangesNothing ==
    [][\A txID \in TxIds :
         /\ (Waiting(txID) /\ wait'[txID].st = "timeout") => tableLocks' = tableLocks
         /\ (~Waiting(txID) /\ wait'[txID].st = "waiting")
               => \A t \in DOMAIN tableLocks' :
                     tableLocks'[t] = IF t \in DOMAIN tableLocks THEN tableLocks[t]
                                      ELSE NewTableLock
         /\ Waiting(txID)
               => \A t \in DOMAIN tableLocks :
                     Holds(tableLocks, t, txID) => Holds(tableLocks', t, txID)]_vars

\* C37 witness: a write request of a transaction that holds a read lock on
\* another table has returned the timeout error, and the transaction still
\* holds that read lock and nothing on the table it asked for
C37_Witness ==
    \E txID \in 1 .. MaxTx, t \in DOMAIN tableLocks, held \in DOMAIN tableLocks :
        /\ wait[txID].st = "timeout" /\ wait[txID].table = t
        /\ wait[txID].elapsed > LockTimeout
        /\ ~Holds(tableLocks, t, txID)
        /\ held # t /\ Holds(tableLocks, held, txID)

\* the page ids the scan of a chain visits from page id on, following
\* NextPage for at most fuel links; it stops at a page the pager does not
\* have
RECURSIVE Walked(_, _, _)
Walked(P, id, fuel) ==
    IF ~HasPage(P, id) \/ P.pageCache[id].NextPage = 0 \/ fuel = 0
    THEN <<id>>
    ELSE <<id>> \o Walked(P, P.pageCache[id].NextPage, fuel - 1)

ChainOf(t) == Walked(Pager, tables[t].FirstPageID, numPages)

RowBodySize == 32

\* t.numColumns
NumColumns == 1

\* the values of the column: 1, "a", true, -1.5, 1.0, 1970-01-01
ColumnValues ==
    <<[Type |-> "TypeInt", Data |-> 1], [Type |-> "TypeText", Data |-> <<97>>],
      [Type |-> "TypeBoolean", Data |-> TRUE], [Type |-> "TypeFloat", Data |-> -3],
      [Type |-> "TypeFloat", Data |-> 2],
      [Type |-> "TypeDate", Data |-> [sec |-> 0, nsec |-> 0]]>>

\* the loop of Row.Serialize over r.Values
RECURSIVE SerializeValues(_, _)
SerializeValues(values, arch) ==
    IF values = <<>> THEN <<>>
    ELSE Serialize(Head(values), arch) \o SerializeValues(Tail(values), arch)

\* Row.Serialize: the deleted flag, the column count in 2 bytes, the values
RowSerialize(row, arch) ==
    <<IF row.Deleted THEN 1 ELSE 0>>
      \o <<Len(row.Values) % 256, (Len(row.Values) \div 256) % 256>>
      \o SerializeValues(row.Values, arch)

\* the loop of DeserializeRow over the columns: [err, Values]
RECURSIVE DeserializeValues(_, _, _)
DeserializeValues(data, n, acc) ==
    IF n = 0 THEN [err |-> "", Values |-> acc]
    ELSE LET r == Deserialize(data) IN
         IF r.err # "" THEN [err |-> "failed to deserialize column", Values |-> <<>>]
         ELSE DeserializeValues(SubSeq(data, r.n + 1, Len(data)), n - 1,
                                Append(acc, r.value))

\* DeserializeRow: [err, row]
DeserializeRow(data, numColumns) ==
    LET none == [Deleted |-> FALSE, Values |-> <<>>] IN
    IF Len(data) < 3 THEN [err |-> "data too short for row", row |-> none]
    ELSE IF data[2] + 256 * data[3] # numColumns
         THEN [err |-> "column count mismatch", row |-> none]
    ELSE LET r == DeserializeValues(SubSeq(data, 4, Len(data)), numColumns, <<>>) IN
         IF r.err # "" THEN [err |-> r.err, row |-> none]
         ELSE [err |-> "", row |-> [Deleted |-> data[1] = 1, Values |-> r.Values]]

\* TableStorage.MarkRowDeleted on the page of the row: [err, page]
PageMarkRowDeleted(pg, index, arch) ==
    LET rd == PageReadRow(pg, index)
        row == DeserializeRow(rd.data, NumColumns)
    IN
    IF rd.err # "" THEN [err |-> rd.err, page |-> pg]
    ELSE IF row.err # "" THEN [err |-> row.err, page |-> pg]
    ELSE PageUpdateRow(pg, index,
                       RowSerialize([row.row EXCEPT !.Deleted = TRUE], arch))

\* storage.NewPage for the first page of the table
RNewPage ==
    /\ Len(thePage.Data) = BodySize
    /\ thePage' = [RowCount |-> 0, Data |-> [i \in 1 .. RowBodySize |-> 0]]
    /\ ret' = [op |-> "NewPage"]
    /\ UNCHANGED <<value, undo, insert, lockVars, tmVars, execVars, pagerVars, catVars,
                   indexes, snap>>

\* TableStorage.InsertRow of a row the page has room for
RInsertRow(values, arch) ==
    LET r == PageWriteRow(thePage,
                          RowSerialize([Deleted |-> FALSE, Values |-> values], arch))
    IN
    /\ Len(thePage.Data) = RowBodySize
    /\ r.err = ""
    /\ thePage' = r.page
    /\ ret' = [op |-> "InsertRow", err |-> r.err]
    /\ UNCHANGED <<value, undo, insert, lockVars, tmVars, execVars, pagerVars, catVars,
                   indexes, snap>>

RMarkRowDeleted(index, arch) ==
    LET r == PageMarkRowDeleted(thePage, index, arch) IN
    /\ Len(thePage.Data) = RowBodySize
    /\ thePage' = r.page
    /\ ret' = [op |-> "MarkRowDeleted", err |-> r.err, index |-> index]
    /\ UNCHANGED <<value, undo, insert, lockVars, tmVars, execVars, pagerVars, catVars,
                   indexes, snap>>

NextMark ==
    \/ RNewPage
    \/ \E ks \in [1 .. NumColumns -> DOMAIN ColumnValues], arch \in Archs :
          RInsertRow([i \in 1 .. NumColumns |-> ColumnValues[ks[i]]], arch)
    \/ \E i \in 0 .. PageCap, arch \in Archs : RMarkRowDeleted(i, arch)

SpecMark == Init /\ [][NextMark]_vars

\* C39: MarkRowDeleted(rowID) changes only the tombstone flag of the
\* addressed row: the bytes of the row after the flag (column count and
\* values), the page's row count and every other row of the page are
\* unchanged, the call never fails with the in-place-too-large error, and a
\* second call on the same rowID leaves the page as after the first call.
C39_MarkDeletedOnlyFlag ==
    [][\A index \in 0 .. PageCap, arch \in Archs :
         (RMarkRowDeleted(index, arch) /\ index < thePage.RowCount) =>
            /\ ret'.err # "new row data is larger than old row data"
            /\ thePage'.RowCount = thePage.RowCount
            /\ \A j \in 0 .. PageCap :
                 (j < thePage.RowCount /\ j # index) =>
                    PageReadRow(thePage', j) = PageReadRow(thePage, j)
            /\ PageReadRow(thePage', index).data
                 = <<1>> \o Tail(PageReadRow(thePage, index).data)
            /\ PageMarkRowDeleted(thePage', index, arch).page = thePage']_vars

(***************************************************************************)
(* SpecPager: the pager called directly, over a file whose writes can      *)
(* fail: AllocatePage, GetPage with any page id, the table heap on top     *)
(* (NewTableStorage, InsertRow), and the process ending and starting       *)
(* again on the same file.                                                 *)
(***************************************************************************)
\* Pager.GetPage: [err, P]
GetPage(P, pageID) ==
    IF pageID \in DOMAIN P.pageCache THEN [err |-> "", P |-> P]
    ELSE IF pageID >= P.numPages THEN [err |-> "page ID out of range", P |-> P]
    ELSE IF pageID \notin DOMAIN P.file THEN [err |-> "failed to read page", P |-> P]
    ELSE [err |-> "", P |-> [P EXCEPT !.pageCache = Put(@, pageID, P.file[pageID])]]

\* Pager.AllocatePage; ok: writePageToDisk succeeds
PAllocatePage(ok) ==
    /\ numPages < HeapMaxPages
    /\ IF ok
       THEN /\ SetPager(AllocatePage(Pager))
            /\ ret' = [op |-> "AllocatePage", err |-> "", id |-> numPages]
       ELSE /\ UNCHANGED pagerVars
            /\ ret' = [op |-> "AllocatePage", err |-> "failed to write page", id |-> 0]
    /\ UNCHANGED <<unitVars, lockVars, tmVars, execVars, catVars, indexes, snap>>

PGetPage(pageID) ==
    LET r == GetPage(Pager, pageID) IN
    /\ SetPager(r.P)
    /\ ret' = [op |-> "GetPage", err |-> r.err, id |-> pageID]
    /\ UNCHANGED <<unitVars, lockVars, tmVars, execVars, catVars, indexes, snap>>

\* the process ends (clean: the deferred pager.Close runs) and NewPager opens
\* the file again
PReopen(clean) ==
    /\ SetPager(NewPager(IF clean THEN Close(Pager) ELSE Pager))
    /\ ret' = [op |-> "NewPager"]
    /\ UNCHANGED <<unitVars, lockVars, tmVars, execVars, catVars, indexes, snap>>

NextPager ==
    \/ \E ok \in BOOLEAN : PAllocatePage(ok)
    \/ \E pageID \in 0 .. HeapMaxPages : PGetPage(pageID)
    \/ \E clean \in BOOLEAN : PReopen(clean)
    \/ \E t \in TableNames : HNewTableStorage(t)
    \/ \E t \in TableNames, v \in Vals : HInsertRow(t, v)

SpecPager == Init /\ [][NextPager]_vars

\* C40: AllocatePage returns a page whose id is the page count before the
\* call, writes it to the file, caches it and increases the page count by
\* exactly one; when the write fails the page count and the cache are
\* unchanged.  GetPage(id) with id at or above the page count fails with the
\* out-of-range error, and every cached page id is below the page count.
C40_PagerAllocation ==
    /\ [][\A ok \in BOOLEAN :
            PAllocatePage(ok) =>
               IF ret'.err = ""
               THEN /\ ret'.id = numPages
                    /\ numPages' = numPages + 1
                    /\ DOMAIN pageCache' = DOMAIN pageCache \cup {numPages}
                    /\ numPages \in DOMAIN file'
                    /\ file'[numPages] = pageCache'[numPages]
               ELSE numPages' = numPages /\ pageCache' = pageCache]_vars
    /\ [][\A pageID \in 0 .. HeapMaxPages :
            (PGetPage(pageID) /\ pageID >= numPages) =>
               (ret'.err = "page ID out of range" /\ UNCHANGED pagerVars)]_vars
    /\ [](\A pageID \in DOMAIN pageCache : pageID < numPages)

\* three pages have been allocated and are cached, and a lookup of the page
\* id equal to the page count has been refused
C40_Witness ==
    /\ numPages = 3
    /\ ret = [op |-> "GetPage", err |-> "page ID out of range", id |-> 3]
    /\ DOMAIN pageCache = 0 .. 2
    /\ DOMAIN tables = {}

====
